---- MODULE Spec2Model ----
(***************************************************************************)
(* A model of cartopy's Projection.project_geometry (lib/cartopy/crs.py):  *)
(* the dispatcher, the ring projector (_project_linear_ring), the boundary *)
(* stitcher (_attach_lines_to_boundary) and the polygon assembler          *)
(* (_rings_to_multi_polygon).                                              *)
(*                                                                         *)
(* Coordinates are pairs <<x, y>> of integers.  The target domain is seen  *)
(* in boundary-fitted coordinates: x is the arc length, along the          *)
(* clockwise boundary, of the boundary point nearest to the coordinate     *)
(* (what shapely's boundary.project returns) and y is the offset from the  *)
(* boundary into the domain.  Arc lengths are integers modulo              *)
(* BoundaryLength; fragment end points sit on even arc lengths so that the *)
(* midpoint of two of them is an integer too.                              *)
(*                                                                         *)
(* What shapely, numpy and cartopy.trace compute (the line clipper,        *)
(* containment and crossing of rings, set operations on polygons, the      *)
(* point transform) is not code of Projection: each such result is an      *)
(* input, drawn from every value the library can return at the step that   *)
(* consumes it.  Where the library's answer follows from the coordinates   *)
(* alone (np.allclose, the orientation of a ring, the validity of a line   *)
(* string) it is computed.                                                 *)
(***************************************************************************)
EXTENDS Integers, Sequences, FiniteSets, TLC

VARIABLES
    pc,                 \* the position of the running call
    stack,              \* the labels the running calls return to
    raised,             \* the exception that ended the call, or "none"
    \* the CRS object (self)
    crs_boundary,       \* self.boundary: the arc lengths of its vertices
    cw_memo,            \* self._cw_boundary, <<>> while the attribute is unset
    ccw_memo,           \* self._ccw_boundary, <<>> while the attribute is unset
    domain_memo,        \* self._domain, <<>> while the attribute is unset
    \* _attach_lines_to_boundary
    al_multi_line_strings, \* the argument multi_line_strings
    al_is_ccw,          \* the argument is_ccw
    line_strings,       \* the squashed list of line strings
    edge_things,        \* the list of _BoundaryPoint
    remaining_ls,       \* the keys of the dict remaining_ls
    processed_ls,       \* the finished paths
    current_i,          \* i, the key popped to start the current path
    current_ls,         \* the coordinates of the path being built
    added_linestring,   \* the keys appended to the current path
    next_thing,         \* the thing the current pass landed on
    linear_rings,       \* the returned list of rings
    al_calls,           \* how many times _attach_lines_to_boundary was entered
    current_ids,        \* history: the keys whose coordinates current_ls holds
    processed_ids,      \* history: current_ids of every finished path
    landed,             \* history: the things the current path landed on
    \* _project_linear_ring
    rp_clipped,         \* history: what cartopy.trace.project_linear returned
    multi_line_string,  \* the local multi_line_string, as its line strings
    rp_line_strings,    \* the local line_strings of the stitching loop
    rp_i,               \* i
    rp_j,               \* j
    modified,
    any_modified,
    rp_rings,           \* the local rings
    rp_calls,           \* how many times _project_linear_ring was entered
    \* _rings_to_multi_polygon
    mp_rings,           \* the argument rings
    mp_is_ccw,          \* the argument is_ccw
    exterior_rings,     \* the list exterior_rings, as indices into mp_rings
    interior_rings,     \* the list interior_rings, as indices into mp_rings
    mp_e,               \* how many exterior rings the loop has dealt with
    polygon_bits,       \* the list polygon_bits
    mp_relation,        \* what contains / crosses answer for each pair
    mp_inversion,       \* history: what inverting the left-over rings came to
    multi_poly,         \* the returned multi polygon
    mp_calls,           \* how many times _rings_to_multi_polygon was entered
    \* _project_polygon
    polygon,            \* the argument polygon
    pg_is_ccw,          \* the local is_ccw
    pg_rings,           \* the local rings
    multi_lines,        \* the local multi_lines
    pg_r,               \* how many source rings the loop has dealt with
    \* project_geometry and the handlers of multi-part geometries
    geometry,           \* the argument geometry
    src_arg,            \* history: the argument src_crs as it was passed
    src_crs,            \* the local src_crs
    method_name,        \* the handler that was invoked, or "none"
    geoms,              \* the local geoms of a multi-part handler
    dp_m,               \* how many members the handler has dealt with
    transformed,        \* history: what transform_point returned last
    projected,          \* history: what each member projected to
    result              \* the value project_geometry returned

crsVars == <<crs_boundary, cw_memo, ccw_memo, domain_memo>>
alVars == <<al_multi_line_strings, al_is_ccw, line_strings, edge_things,
            remaining_ls, processed_ls, current_i, current_ls,
            added_linestring, next_thing, linear_rings, al_calls,
            current_ids, processed_ids, landed>>
rpVars == <<rp_clipped, multi_line_string, rp_line_strings, rp_i, rp_j,
            modified, any_modified, rp_rings, rp_calls>>
mpVars == <<mp_rings, mp_is_ccw, exterior_rings, interior_rings, mp_e,
            polygon_bits, mp_relation, mp_inversion, multi_poly, mp_calls>>
pgVars == <<polygon, pg_is_ccw, pg_rings, multi_lines, pg_r>>
dpVars == <<geometry, src_arg, src_crs, method_name, geoms, dp_m, transformed,
            projected, result>>
vars == <<pc, stack, raised, crsVars, alVars, rpVars, mpVars, pgVars, dpVars>>
notAl == <<rpVars, mpVars, pgVars, dpVars>>
notRp == <<alVars, mpVars, pgVars, dpVars>>
notMp == <<alVars, rpVars, pgVars, dpVars>>

(***************************************************************************)
(* Bounds of the model.                                                    *)
(***************************************************************************)
MaxFragments == 2          \* fragments in one stitching call

\* the arc length of the boundary, and the arc lengths at which fragments
\* end
BoundaryLength == 100
Positions == {0, 10, 50}
\* the boundaries: the arc lengths of their vertices
Boundaries == {{0, 30, 50}, {0, 10, 75}}
\* how many coordinates a fragment has between its two ends
InteriorCounts == {0, 1}

MaxRings == 3              \* rings handed to the assembler
MaxClipped == 3            \* fragments the clipper returns for one ring
\* the fragments the clipper returns: two-coordinate ones whose ends are up
\* to two thresholds apart, and longer ones, closed or not
RingXs == {0, 1, 2}
RingFragments ==
    {<<<<a, 0>>, <<b, 0>>>> : a \in RingXs, b \in RingXs}
    \cup {<< <<0, 0>>, <<0, 2>>, <<2, 2>>, <<0, 0>> >>,
          << <<0, 0>>, <<2, 2>>, <<0, 2>>, <<0, 0>> >>,
          << <<0, 0>>, <<0, 2>>, <<2, 2>>, <<2, 0>>, <<0, 0>> >>,
          << <<0, 0>>, <<0, 2>>, <<2, 2>>, <<1, 0>> >>,
          << <<0, 0>>, <<2, 2>>, <<0, 0>> >>}
\* the fragments the clipper returns when the ring is projected on behalf
\* of project_geometry: nothing, a whole ring of either orientation, one
\* open fragment, two fragments that join, two that do not
ClippedInPolygon ==
    {<<>>,
     << << <<0, 1>>, <<2, 1>>, <<2, 3>>, <<0, 1>> >> >>,
     << << <<0, 1>>, <<2, 3>>, <<2, 1>>, <<0, 1>> >> >>,
     << << <<0, 0>>, <<2, 2>>, <<4, 0>> >> >>,
     << << <<2, 2>>, <<3, 2>>, <<4, 0>> >>, << <<0, 0>>, <<1, 2>>, <<2, 2>> >> >>,
     << << <<0, 0>>, <<1, 1>>, <<2, 0>> >>, << <<2, 0>>, <<3, 1>>, <<4, 0>> >> >>}

\* what cartopy.trace.project_linear returns for a line string
ClippedLines ==
    {<<>>,
     << << <<0, 0>>, <<2, 2>>, <<4, 0>> >> >>,
     << << <<0, 0>>, <<1, 1>>, <<2, 0>> >>, << <<4, 0>>, <<3, 1>> >> >>}

MaxMembers == 2            \* members of a multi-part geometry
\* how many interior rings a source polygon has
InteriorRingCounts == {0, 1}

(***************************************************************************)
(* Sequences.                                                              *)
(***************************************************************************)
Last(s) == s[Len(s)]
Front(s) == SubSeq(s, 1, Len(s) - 1)
RemoveAt(s, k) == SubSeq(s, 1, k - 1) \o SubSeq(s, k + 1, Len(s))
Reverse(s) == [k \in 1 .. Len(s) |-> s[Len(s) + 1 - k]]
Range(s) == {s[k] : k \in 1 .. Len(s)}
SetMax(S) == CHOOSE m \in S : \A n \in S : n <= m
SetMin(S) == CHOOSE m \in S : \A n \in S : m <= n

RECURSIVE Flatten(_)
Flatten(ss) == IF ss = <<>> THEN <<>> ELSE Head(ss) \o Flatten(Tail(ss))

RECURSIVE SetToSeq(_)
SetToSeq(S) == IF S = {} THEN <<>>
               ELSE <<SetMin(S)>> \o SetToSeq(S \ {SetMin(S)})

(***************************************************************************)
(* The boundary of the CRS.                                                *)
(***************************************************************************)
\* sgeom.LinearRing(coords): a closed coordinate sequence; one that is not
\* closed is closed by repeating its first coordinate.
LinearRing(coords) ==
    IF coords # <<>> /\ coords[1] = Last(coords) THEN coords
    ELSE Append(coords, coords[1])

\* self.boundary as a coordinate sequence, clockwise, closed.
BoundaryCoords(b) ==
    LET open == [k \in 1 .. Cardinality(b) |-> <<SetToSeq(b)[k], 0>>]
    IN LinearRing(open)

\* a counter-clockwise boundary built without reversing the coordinates
BoundaryUnreversed(b) == LinearRing(BoundaryCoords(b))

\* the value the property cw_boundary / ccw_boundary builds on first use
CwBoundary(b) == LinearRing(BoundaryCoords(b))
CcwBoundary(b) == LinearRing(Reverse(BoundaryCoords(b)))

\* boundary.project(Point(xy)) on the boundary of the chosen orientation
boundary_distance(xy, is_ccw) ==
    IF is_ccw THEN (BoundaryLength - xy[1]) % BoundaryLength ELSE xy[1]

\* boundary.interpolate(dist) on the boundary of the chosen orientation
interpolate(dist, is_ccw) ==
    <<IF is_ccw THEN (BoundaryLength - dist) % BoundaryLength ELSE dist, 0>>

(***************************************************************************)
(* _BoundaryPoint and the event list.                                      *)
(***************************************************************************)
_BoundaryPoint(distance, kind, data) ==
    [distance |-> distance, kind |-> kind, data |-> data]

\* the two end points of line string number i (numbered from 0)
EndThings(ls, i, is_ccw) ==
    << _BoundaryPoint(boundary_distance(ls[1], is_ccw), FALSE,
                      <<i, "first", ls[1]>>),
       _BoundaryPoint(boundary_distance(Last(ls), is_ccw), FALSE,
                      <<i, "last", Last(ls)>>) >>

RECURSIVE AllEndThings(_, _, _)
AllEndThings(lss, i, is_ccw) ==
    IF i >= Len(lss) THEN <<>>
    ELSE EndThings(lss[i + 1], i, is_ccw) \o AllEndThings(lss, i + 1, is_ccw)

\* one thing per vertex of boundary.coords[:-1]
VertexThings(boundary, is_ccw) ==
    [k \in 1 .. Len(boundary) - 1 |->
        _BoundaryPoint(boundary_distance(boundary[k], is_ccw), TRUE,
                       boundary[k])]

\* the sort key (thing.distance, thing.kind), False before True
KeyLess(a, b) ==
    \/ a.distance < b.distance
    \/ a.distance = b.distance /\ ~a.kind /\ b.kind

\* list.sort is stable: t goes after every thing whose key is not greater
RECURSIVE SortedInsert(_, _)
SortedInsert(s, t) ==
    IF s = <<>> THEN <<t>>
    ELSE IF KeyLess(t, Head(s)) THEN <<t>> \o s
    ELSE <<Head(s)>> \o SortedInsert(Tail(s), t)

RECURSIVE SortThings(_)
SortThings(s) ==
    IF s = <<>> THEN <<>>
    ELSE SortedInsert(SortThings(Front(s)), Last(s))

\* a loop that inserts nothing
InsertNothing(things, k, prev, is_ccw) == things

\* the loop that inserts an artificial boundary point between two adjacent
\* end points of one line string; prev is <<>> for None
RECURSIVE InsertArtificial(_, _, _, _)
InsertArtificial(things, k, prev, is_ccw) ==
    IF k > Len(things) THEN <<>>
    ELSE LET edge_thing == things[k]
         IN IF /\ prev # <<>>
               /\ ~edge_thing.kind
               /\ ~prev[1].kind
               /\ edge_thing.data[1] = prev[1].data[1]
            THEN LET mid_dist == (edge_thing.distance + prev[1].distance) \div 2
                     new_thing == _BoundaryPoint(mid_dist, TRUE,
                                                 interpolate(mid_dist, is_ccw))
                 IN <<new_thing, edge_thing>>
                    \o InsertArtificial(things, k + 1, <<>>, is_ccw)
            ELSE <<edge_thing>>
                 \o InsertArtificial(things, k + 1, <<edge_thing>>, is_ccw)

\* a filter that keeps every thing
filter_nothing(t) == TRUE

filter_last(t) == t.kind \/ t.data[2] = "first"

RECURSIVE Filter(_)
Filter(s) ==
    IF s = <<>> THEN <<>>
    ELSE IF filter_last(Head(s)) THEN <<Head(s)>> \o Filter(Tail(s))
    ELSE Filter(Tail(s))

\* _find_first_ge with a strict comparison
_find_first_gt(a, x) ==
    IF \E k \in 1 .. Len(a) : a[k].distance > x
    THEN SetMin({k \in 1 .. Len(a) : a[k].distance > x})
    ELSE 1

\* _find_first_ge(a, x), as the index of the thing it returns
_find_first_ge(a, x) ==
    IF \E k \in 1 .. Len(a) : a[k].distance >= x
    THEN SetMin({k \in 1 .. Len(a) : a[k].distance >= x})
    ELSE 1

\* line_string.is_valid: a line string is valid when it has two distinct
\* coordinates
is_valid_line(line_string) == Cardinality(Range(line_string)) >= 2

\* makes_valid_ring without the test that a path of 3 coordinates is open
makes_valid_ring_unchecked(line_string, is_valid) ==
    Len(line_string) >= 3 /\ is_valid

\* makes_valid_ring(line_string); is_valid is line_string.is_valid
makes_valid_ring(line_string, is_valid) ==
    IF Len(line_string) = 3
    THEN line_string[1] # Last(line_string) /\ is_valid
    ELSE Len(line_string) > 3 /\ is_valid

RECURSIVE ValidRings(_, _)
ValidRings(paths, k) ==
    IF k > Len(paths) THEN <<>>
    ELSE (IF makes_valid_ring(paths[k], is_valid_line(paths[k]))
          THEN <<LinearRing(paths[k])>> ELSE <<>>)
         \o ValidRings(paths, k + 1)

(***************************************************************************)
(* Calls and returns.                                                      *)
(***************************************************************************)
Return ==
    /\ pc' = IF stack = <<>> THEN "done" ELSE Head(stack)
    /\ stack' = IF stack = <<>> THEN <<>> ELSE Tail(stack)

(***************************************************************************)
(* _attach_lines_to_boundary(multi_line_strings, is_ccw)                   *)
(***************************************************************************)
\* lines 374-422: pick the boundary (memoising it on first use), squash the
\* line strings, record the end points and the boundary vertices, sort.
AttachBuild ==
    /\ pc = "al_build"
    /\ LET boundary == IF al_is_ccw
                       THEN (IF ccw_memo = <<>> THEN CcwBoundary(crs_boundary)
                             ELSE ccw_memo)
                       ELSE (IF cw_memo = <<>> THEN CwBoundary(crs_boundary)
                             ELSE cw_memo)
           lss == Flatten(al_multi_line_strings)
       IN /\ ccw_memo' = IF al_is_ccw THEN boundary ELSE ccw_memo
          /\ cw_memo' = IF al_is_ccw THEN cw_memo ELSE boundary
          /\ line_strings' = lss
          /\ edge_things' = SortThings(AllEndThings(lss, 0, al_is_ccw)
                                       \o VertexThings(boundary, al_is_ccw))
          /\ remaining_ls' = {k - 1 : k \in 1 .. Len(lss)}
    /\ al_calls' = al_calls + 1
    /\ pc' = "al_insert"
    /\ UNCHANGED notAl
    /\ UNCHANGED <<stack, raised, crs_boundary, domain_memo,
                   al_multi_line_strings, al_is_ccw, processed_ls, current_i,
                   current_ls, added_linestring, next_thing, linear_rings,
                   current_ids, processed_ids, landed>>

\* lines 424-441
AttachInsert ==
    /\ pc = "al_insert"
    /\ edge_things' = InsertArtificial(edge_things, 1, <<>>, al_is_ccw)
    /\ pc' = "al_filter"
    /\ UNCHANGED notAl
    /\ UNCHANGED <<stack, raised, crsVars, al_multi_line_strings, al_is_ccw,
                   line_strings, remaining_ls, processed_ls, current_i,
                   current_ls, added_linestring, next_thing, linear_rings,
                   al_calls, current_ids, processed_ids, landed>>

\* lines 461-466
AttachFilter ==
    /\ pc = "al_filter"
    /\ edge_things' = Filter(edge_things)
    /\ processed_ls' = <<>>
    /\ processed_ids' = <<>>
    /\ pc' = "al_while"
    /\ UNCHANGED notAl
    /\ UNCHANGED <<stack, raised, crsVars, al_multi_line_strings, al_is_ccw,
                   line_strings, remaining_ls, current_i, current_ls,
                   added_linestring, next_thing, linear_rings, al_calls,
                   current_ids, landed>>

\* dict.popitem(): the key inserted last among those left
popitem(keys) == SetMax(keys)

\* lines 467-478: start a new path
AttachPop ==
    /\ pc = "al_while"
    /\ remaining_ls # {}
    /\ LET i == popitem(remaining_ls)
       IN /\ current_i' = i
          /\ remaining_ls' = remaining_ls \ {i}
          /\ current_ls' = line_strings[i + 1]
          /\ current_ids' = <<i>>
    /\ added_linestring' = {}
    /\ landed' = <<>>
    /\ pc' = "al_find"
    /\ UNCHANGED notAl
    /\ UNCHANGED <<stack, raised, crsVars, al_multi_line_strings, al_is_ccw,
                   line_strings, edge_things, processed_ls, next_thing,
                   linear_rings, al_calls, processed_ids>>

\* a remove that leaves the boundary points in the list
remove_first_ends_only(things, k) ==
    IF things[k].kind THEN things ELSE RemoveAt(things, k)

\* a remove that takes only boundary points off the list
remove_boundary_points_only(things, k) ==
    IF things[k].kind THEN RemoveAt(things, k) ELSE things

\* edge_things.remove(next_thing): the things are compared by identity
remove(things, k) == RemoveAt(things, k)

\* lines 479-488: find the next thing at or after the end of the path and
\* take it off the list; a[0] of an empty list raises IndexError
AttachFind ==
    /\ pc = "al_find"
    /\ IF edge_things = <<>>
       THEN /\ raised' = "IndexError"
            /\ pc' = "raised"
            /\ UNCHANGED <<edge_things, next_thing, landed>>
       ELSE LET d_last == boundary_distance(Last(current_ls), al_is_ccw)
                k == _find_first_ge(edge_things, d_last)
            IN /\ next_thing' = edge_things[k]
               /\ edge_things' = remove(edge_things, k)
               /\ landed' = Append(landed, edge_things[k])
               /\ pc' = "al_next"
               /\ UNCHANGED raised
    /\ UNCHANGED notAl
    /\ UNCHANGED <<stack, crsVars, al_multi_line_strings, al_is_ccw,
                   line_strings, remaining_ls, processed_ls, current_i,
                   current_ls, added_linestring, linear_rings, al_calls,
                   current_ids, processed_ids>>

\* lines 491-498: the next thing is a boundary point
AttachBoundaryPoint ==
    /\ pc = "al_next"
    /\ next_thing.kind
    /\ current_ls' = Append(current_ls, next_thing.data)
    /\ pc' = "al_find"
    /\ UNCHANGED notAl
    /\ UNCHANGED <<stack, raised, crsVars, al_multi_line_strings, al_is_ccw,
                   line_strings, edge_things, remaining_ls, processed_ls,
                   current_i, added_linestring, next_thing, linear_rings,
                   al_calls, current_ids, processed_ids, landed>>

\* lines 500-510: the next thing is the first end of line string i
AttachClose ==
    /\ pc = "al_next"
    /\ ~next_thing.kind
    /\ next_thing.data[1] = current_i
    /\ processed_ls' = Append(processed_ls, current_ls)
    /\ processed_ids' = Append(processed_ids, current_ids)
    /\ pc' = "al_while"
    /\ UNCHANGED notAl
    /\ UNCHANGED <<stack, raised, crsVars, al_multi_line_strings, al_is_ccw,
                   line_strings, edge_things, remaining_ls, current_i,
                   current_ls, added_linestring, next_thing, linear_rings,
                   al_calls, current_ids, landed>>

\* the coordinates of line string j without the first one
coords_after_first(lss, j) == Tail(lss[j + 1])

\* lines 515-518: coords_to_append, all the coordinates of line_strings[j]
coords_to_append(lss, j) == lss[j + 1]

\* lines 511-533: the next thing is the first end of another line string
AttachLine ==
    /\ pc = "al_next"
    /\ ~next_thing.kind
    /\ next_thing.data[1] # current_i
    /\ LET j == next_thing.data[1]
       IN /\ remaining_ls' = remaining_ls \ {j}
          /\ current_ls' = current_ls \o coords_to_append(line_strings, j)
          /\ current_ids' = Append(current_ids, j)
          /\ IF j \notin added_linestring
             THEN /\ added_linestring' = added_linestring \cup {j}
                  /\ pc' = "al_find"
                  /\ UNCHANGED raised
             ELSE /\ raised' = "RuntimeError"
                  /\ pc' = "raised"
                  /\ UNCHANGED added_linestring
    /\ UNCHANGED notAl
    /\ UNCHANGED <<stack, crsVars, al_multi_line_strings, al_is_ccw,
                   line_strings, edge_things, processed_ls, current_i,
                   next_thing, linear_rings, al_calls, processed_ids, landed>>

\* lines 535-555: keep the paths that make a valid ring
AttachReturn ==
    /\ pc = "al_while"
    /\ remaining_ls = {}
    /\ linear_rings' = ValidRings(processed_ls, 1)
    /\ Return
    /\ UNCHANGED notAl
    /\ UNCHANGED <<raised, crsVars, al_multi_line_strings, al_is_ccw,
                   line_strings, edge_things, remaining_ls, processed_ls,
                   current_i, current_ls, added_linestring, next_thing,
                   al_calls, current_ids, processed_ids, landed>>

AttachNext ==
    \/ AttachBuild
    \/ AttachInsert
    \/ AttachFilter
    \/ AttachPop
    \/ AttachFind
    \/ AttachBoundaryPoint
    \/ AttachClose
    \/ AttachLine
    \/ AttachReturn

(***************************************************************************)
(* _project_linear_ring(linear_ring, src_crs)                              *)
(***************************************************************************)
Abs(n) == IF n < 0 THEN -n ELSE n

\* self.x_limits and self.y_limits of the target projection
x_limits == <<-100000, 100000>>
y_limits == <<-100000, 100000>>

\* line 229: threshold = max(abs(x_limits + y_limits)) * 1e-5, kept as
\* 10^5 times its value so that it stays an integer
threshold_e5 == SetMax({Abs(v) : v \in Range(x_limits \o y_limits)})

\* np.allclose(a, b, atol=threshold): |a - b| <= atol + 1e-5 * |b| in every
\* component, both sides multiplied by 10^5
allclose(a, b, atol_e5) ==
    \A k \in 1 .. 2 : 100000 * Abs(a[k] - b[k]) <= atol_e5 + Abs(b[k])

\* a ring test that asks for more than 4 coordinates
is_ring_longer(line, atol_e5) ==
    Len(line) > 4 /\ allclose(line[1], Last(line), atol_e5)

\* lines 285-287: a line that the projection closed into a ring
is_ring(line, atol_e5) ==
    Len(line) > 3 /\ allclose(line[1], Last(line), atol_e5)

RECURSIVE RingsOf(_)
RingsOf(lines) ==
    IF lines = <<>> THEN <<>>
    ELSE (IF is_ring(Head(lines), threshold_e5)
          THEN <<LinearRing(Front(Head(lines)))>> ELSE <<>>)
         \o RingsOf(Tail(lines))

\* a list of open lines that still holds the lines that became rings
AllLines(lines) == lines

RECURSIVE LinesOf(_)
LinesOf(lines) ==
    IF lines = <<>> THEN <<>>
    ELSE (IF is_ring(Head(lines), threshold_e5)
          THEN <<>> ELSE <<Head(lines)>>)
         \o LinesOf(Tail(lines))

\* what cartopy.trace.project_linear may return for the ring being projected
ClippedRings == UNION {[1 .. n -> RingFragments] : n \in 0 .. MaxClipped}

\* cartopy.trace.project_linear(linear_ring, src_crs, self): every list of
\* fragments when _project_linear_ring runs on its own, the lists of
\* ClippedInPolygon when it runs inside project_geometry
project_linear == IF stack = <<>> THEN ClippedRings ELSE ClippedInPolygon

\* lines 224-245: clip the ring, compute the threshold, enter the loop
RingProject ==
    /\ pc = "rp_project"
    /\ \E clipped \in project_linear :
          /\ rp_clipped' = clipped
          /\ multi_line_string' = clipped
          /\ IF Len(clipped) > 1
             THEN /\ rp_line_strings' = clipped
                  /\ pc' = "rp_while_i"
             ELSE /\ rp_line_strings' = <<>>
                  /\ pc' = "rp_rings"
    /\ any_modified' = FALSE
    /\ modified' = FALSE
    /\ rp_i' = 0
    /\ rp_j' = 0
    /\ rp_rings' = <<>>
    /\ rp_calls' = rp_calls + 1
    /\ UNCHANGED <<stack, raised, crsVars>>
    /\ UNCHANGED notRp

\* lines 255-257: the head of the outer loop
RingWhileI ==
    /\ pc = "rp_while_i"
    /\ rp_i < Len(rp_line_strings)
    /\ modified' = FALSE
    /\ rp_j' = 0
    /\ pc' = "rp_while_j"
    /\ UNCHANGED <<stack, raised, crsVars, rp_clipped, multi_line_string,
                   rp_line_strings, rp_i, any_modified, rp_rings, rp_calls>>
    /\ UNCHANGED notRp

\* a test that joins line i only to a line after it
JoinableForward ==
    /\ rp_i < rp_j
    /\ allclose(rp_line_strings[rp_i + 1][1], Last(rp_line_strings[rp_j + 1]),
                threshold_e5)

\* lines 259-261: the pair (i, j) is close enough to join
Joinable ==
    /\ rp_i # rp_j
    /\ allclose(rp_line_strings[rp_i + 1][1], Last(rp_line_strings[rp_j + 1]),
                threshold_e5)

\* lines 259-273: join line j and line i, delete both, append the join
RingJoin ==
    /\ pc = "rp_while_j"
    /\ rp_j < Len(rp_line_strings)
    /\ Joinable
    /\ LET last_coords == rp_line_strings[rp_j + 1]
           first_coords == Tail(rp_line_strings[rp_i + 1])
           combo == last_coords \o first_coords
           lo == IF rp_j < rp_i THEN rp_j ELSE rp_i
           hi == IF rp_j < rp_i THEN rp_i ELSE rp_j
       IN /\ rp_i' = lo
          /\ rp_j' = hi
          /\ rp_line_strings' =
                Append(RemoveAt(RemoveAt(rp_line_strings, hi + 1), lo + 1),
                       combo)
    /\ modified' = TRUE
    /\ any_modified' = TRUE
    /\ pc' = "rp_while_i"
    /\ UNCHANGED <<stack, raised, crsVars, rp_clipped, multi_line_string,
                   rp_rings, rp_calls>>
    /\ UNCHANGED notRp

\* lines 274-275: the pair does not join
RingNextJ ==
    /\ pc = "rp_while_j"
    /\ rp_j < Len(rp_line_strings)
    /\ ~Joinable
    /\ rp_j' = rp_j + 1
    /\ UNCHANGED <<pc, stack, raised, crsVars, rp_clipped, multi_line_string,
                   rp_line_strings, rp_i, modified, any_modified, rp_rings,
                   rp_calls>>
    /\ UNCHANGED notRp

\* lines 258, 276-277: the inner loop ran out without a join
RingNextI ==
    /\ pc = "rp_while_j"
    /\ rp_j >= Len(rp_line_strings)
    /\ rp_i' = IF ~modified THEN rp_i + 1 ELSE rp_i
    /\ pc' = "rp_while_i"
    /\ UNCHANGED <<stack, raised, crsVars, rp_clipped, multi_line_string,
                   rp_line_strings, rp_j, modified, any_modified, rp_rings,
                   rp_calls>>
    /\ UNCHANGED notRp

\* lines 255, 278-279: the outer loop is over
RingLoopEnd ==
    /\ pc = "rp_while_i"
    /\ rp_i >= Len(rp_line_strings)
    /\ multi_line_string' = IF any_modified THEN rp_line_strings
                            ELSE multi_line_string
    /\ pc' = "rp_rings"
    /\ UNCHANGED <<stack, raised, crsVars, rp_clipped, rp_line_strings, rp_i,
                   rp_j, modified, any_modified, rp_rings, rp_calls>>
    /\ UNCHANGED notRp

\* lines 281-296: split the lines into rings and open line strings, return
RingReturn ==
    /\ pc = "rp_rings"
    /\ rp_rings' = RingsOf(multi_line_string)
    /\ multi_line_string' = IF RingsOf(multi_line_string) # <<>>
                            THEN LinesOf(multi_line_string)
                            ELSE multi_line_string
    /\ Return
    /\ UNCHANGED <<raised, crsVars, rp_clipped, rp_line_strings, rp_i, rp_j,
                   modified, any_modified, rp_calls>>
    /\ UNCHANGED notRp

RingNext ==
    \/ RingProject
    \/ RingWhileI
    \/ RingJoin
    \/ RingNextJ
    \/ RingNextI
    \/ RingLoopEnd
    \/ RingReturn

(***************************************************************************)
(* _rings_to_multi_polygon(rings, is_ccw)                                  *)
(***************************************************************************)
\* twice the signed area of a closed coordinate sequence
RECURSIVE SignedArea2(_)
SignedArea2(c) ==
    IF Len(c) < 2 THEN 0
    ELSE c[1][1] * c[2][2] - c[2][1] * c[1][2] + SignedArea2(Tail(c))

\* ring.is_ccw
ring_is_ccw(ring) == SignedArea2(ring) >= 0

\* the test of line 561 with its sense reversed
is_interior_reversed(ring, is_ccw) == ring_is_ccw(ring) = is_ccw

\* line 561: ring.is_ccw != is_ccw
is_interior(ring, is_ccw) == ring_is_ccw(ring) # is_ccw

RECURSIVE Select(_, _, _)
Select(rings, is_ccw, want_interior) ==
    IF rings = <<>> THEN <<>>
    ELSE LET n == Len(rings)
         IN Select(Front(rings), is_ccw, want_interior)
            \o (IF is_interior(rings[n], is_ccw) = want_interior
                THEN <<n>> ELSE <<>>)

Relations == {"contains", "crosses", "neither"}

\* the test of line 575 alone
contains_only(relation, e, i) == relation[<<e, i>>] = "contains"

\* line 575 and line 578: the interior ring goes to this exterior ring
slurps(relation, e, i) == relation[<<e, i>>] \in {"contains", "crosses"}

RECURSIVE Holes(_, _, _)
Holes(relation, e, ints) ==
    IF ints = <<>> THEN <<>>
    ELSE (IF slurps(relation, e, Head(ints)) THEN <<Head(ints)>> ELSE <<>>)
         \o Holes(relation, e, Tail(ints))

\* a loop that leaves every interior ring in the list
KeepAll(relation, e, ints) == ints

RECURSIVE NotHoles(_, _, _)
NotHoles(relation, e, ints) ==
    IF ints = <<>> THEN <<>>
    ELSE (IF slurps(relation, e, Head(ints)) THEN <<>> ELSE <<Head(ints)>>)
         \o NotHoles(relation, e, Tail(ints))

\* what the inversion of a left-over ring comes to (lines 599-618):
\* "unusable" when the buffered polygon is empty or invalid, "empty" when the
\* inverted polygon misses the domain, "part" otherwise.  The inverted
\* polygon is box.difference(polygon) intersected with the domain: it is
\* empty whenever the polygon of the ring covers the domain.
Inversions == {"unusable", "empty", "part"}

\* nothing has been inverted
NoInversion == [covers |-> {}, outcome |-> <<>>]

\* an inversion that keeps every polygon it could compute, empty or not
RECURSIVE InvertedUnlessUnusable(_, _)
InvertedUnlessUnusable(ints, outcome) ==
    IF ints = <<>> THEN <<>>
    ELSE (IF outcome[Head(ints)] # "unusable"
          THEN <<[kind |-> "inverted", ring |-> Head(ints)]>> ELSE <<>>)
         \o InvertedUnlessUnusable(Tail(ints), outcome)

RECURSIVE Inverted(_, _)
Inverted(ints, outcome) ==
    IF ints = <<>> THEN <<>>
    ELSE (IF outcome[Head(ints)] = "part"
          THEN <<[kind |-> "inverted", ring |-> Head(ints)]>> ELSE <<>>)
         \o Inverted(Tail(ints), outcome)

\* sgeom.MultiPolygon(polygon_bits) and sgeom.MultiPolygon()
MultiPolygon(parts) ==
    [py_type |-> "geometry", geom_type |-> "MultiPolygon", geoms |-> parts]

\* lines 558-566: classify the rings
AssembleClassify ==
    /\ pc = "mp_classify"
    /\ exterior_rings' = Select(mp_rings, mp_is_ccw, FALSE)
    /\ interior_rings' = Select(mp_rings, mp_is_ccw, TRUE)
    /\ polygon_bits' = <<>>
    /\ mp_e' = 0
    /\ mp_relation' \in
          [Range(Select(mp_rings, mp_is_ccw, FALSE))
             \X Range(Select(mp_rings, mp_is_ccw, TRUE)) -> Relations]
    /\ mp_inversion' = NoInversion
    /\ mp_calls' = mp_calls + 1
    /\ pc' = "mp_exterior"
    /\ UNCHANGED <<stack, raised, crsVars, mp_rings, mp_is_ccw, multi_poly>>
    /\ UNCHANGED notMp

\* lines 570-584: one exterior ring slurps up the interior rings it holds
AssembleExterior ==
    /\ pc = "mp_exterior"
    /\ mp_e < Len(exterior_rings)
    /\ LET e == exterior_rings[mp_e + 1]
           holes == Holes(mp_relation, e, interior_rings)
       IN /\ polygon_bits' =
                Append(polygon_bits,
                       [kind |-> "rings",
                        exterior |-> mp_rings[e],
                        holes |-> [k \in 1 .. Len(holes) |-> mp_rings[holes[k]]],
                        exterior_index |-> e,
                        hole_indices |-> holes])
          /\ interior_rings' = NotHoles(mp_relation, e, interior_rings)
    /\ mp_e' = mp_e + 1
    /\ UNCHANGED <<pc, stack, raised, crsVars, mp_rings, mp_is_ccw,
                   exterior_rings, mp_relation, mp_inversion, multi_poly,
                   mp_calls>>
    /\ UNCHANGED notMp

\* lines 586-618: invert the interior rings that are left over
AssembleInvert ==
    /\ pc = "mp_exterior"
    /\ mp_e >= Len(exterior_rings)
    /\ IF interior_rings # <<>>
       THEN /\ domain_memo' = IF domain_memo = <<>>
                              THEN BoundaryCoords(crs_boundary)
                              ELSE domain_memo
            /\ \E covers \in SUBSET Range(interior_rings) :
                  \E outcome \in [Range(interior_rings) -> Inversions] :
                     /\ \A r \in covers : outcome[r] # "part"
                     /\ mp_inversion' =
                           [covers |-> covers, outcome |-> outcome]
                     /\ polygon_bits' =
                           polygon_bits \o Inverted(interior_rings, outcome)
       ELSE UNCHANGED <<domain_memo, polygon_bits, mp_inversion>>
    /\ pc' = "mp_build"
    /\ UNCHANGED <<stack, raised, crs_boundary, cw_memo, ccw_memo, mp_rings,
                   mp_is_ccw, exterior_rings, interior_rings, mp_e,
                   mp_relation, multi_poly, mp_calls>>
    /\ UNCHANGED notMp

\* lines 620-624: build the multi polygon
AssembleReturn ==
    /\ pc = "mp_build"
    /\ multi_poly' = MultiPolygon(polygon_bits)
    /\ Return
    /\ UNCHANGED <<raised, crsVars, mp_rings, mp_is_ccw, exterior_rings,
                   interior_rings, mp_e, polygon_bits, mp_relation,
                   mp_inversion, mp_calls>>
    /\ UNCHANGED notMp

AssembleNext ==
    \/ AssembleClassify
    \/ AssembleExterior
    \/ AssembleInvert
    \/ AssembleReturn

(***************************************************************************)
(* _project_polygon(polygon, src_crs)                                      *)
(***************************************************************************)
Call(label, return_to) ==
    /\ pc' = label
    /\ stack' = <<return_to>> \o stack

\* src_crs.is_geodetic()
is_geodetic(crs) == crs = "geodetic"

\* the orientation of the exterior ring, whatever the source CRS
exterior_orientation(crs, poly) == poly.exterior_is_ccw

\* lines 338-341
orientation(crs, poly) ==
    IF is_geodetic(crs) THEN TRUE ELSE poly.exterior_is_ccw

\* lines 338-346
PolygonEnter ==
    /\ pc = "pg_enter"
    /\ pg_is_ccw' = orientation(src_crs, polygon)
    /\ pg_rings' = <<>>
    /\ multi_lines' = <<>>
    /\ pg_r' = 0
    /\ pc' = "pg_for"
    /\ UNCHANGED <<stack, raised, crsVars, alVars, rpVars, mpVars, polygon,
                   dpVars>>

\* lines 347-348: project the next source ring
PolygonRing ==
    /\ pc = "pg_for"
    /\ pg_r < 1 + polygon.interiors
    /\ Call("rp_project", "pg_collect")
    /\ UNCHANGED <<raised, crsVars, alVars, rpVars, mpVars, pgVars, dpVars>>

\* multi_lines taking the lines of every ring, even when there are none
append_always(lines, p_mline) == Append(lines, p_mline)

\* lines 351-352: multi_lines takes p_mline when it has a line string
extend_multi_lines(lines, p_mline) ==
    IF Len(p_mline) > 0 THEN Append(lines, p_mline) ELSE lines

\* lines 349-352: keep the rings and the open lines of that source ring
PolygonCollect ==
    /\ pc = "pg_collect"
    /\ pg_rings' = pg_rings \o rp_rings
    /\ multi_lines' = extend_multi_lines(multi_lines, multi_line_string)
    /\ pg_r' = pg_r + 1
    /\ pc' = "pg_for"
    /\ UNCHANGED <<stack, raised, crsVars, alVars, rpVars, mpVars, polygon,
                   pg_is_ccw, dpVars>>

\* lines 355-356: attach the open lines to the boundary
PolygonAttach ==
    /\ pc = "pg_for"
    /\ pg_r >= 1 + polygon.interiors
    /\ multi_lines # <<>>
    /\ al_multi_line_strings' = multi_lines
    /\ al_is_ccw' = pg_is_ccw
    /\ Call("al_build", "pg_extend")
    /\ UNCHANGED <<raised, crsVars, line_strings, edge_things, remaining_ls,
                   processed_ls, current_i, current_ls, added_linestring,
                   next_thing, linear_rings, al_calls, current_ids,
                   processed_ids, landed, rpVars, mpVars, pgVars, dpVars>>

\* line 356: rings.extend(...)
PolygonExtend ==
    /\ pc = "pg_extend"
    /\ pg_rings' = pg_rings \o linear_rings
    /\ pc' = "pg_assemble"
    /\ UNCHANGED <<stack, raised, crsVars, alVars, rpVars, mpVars, polygon,
                   pg_is_ccw, multi_lines, pg_r, dpVars>>

\* line 355 with no open line left
PolygonNoLines ==
    /\ pc = "pg_for"
    /\ pg_r >= 1 + polygon.interiors
    /\ multi_lines = <<>>
    /\ pc' = "pg_assemble"
    /\ UNCHANGED <<stack, raised, crsVars, alVars, rpVars, mpVars, pgVars,
                   dpVars>>

\* line 360: hand the rings to _rings_to_multi_polygon
PolygonAssemble ==
    /\ pc = "pg_assemble"
    /\ mp_rings' = pg_rings
    /\ mp_is_ccw' = pg_is_ccw
    /\ Call("mp_classify", "pg_return")
    /\ UNCHANGED <<raised, crsVars, alVars, rpVars, exterior_rings,
                   interior_rings, mp_e, polygon_bits, mp_relation,
                   mp_inversion, multi_poly, mp_calls, pgVars, dpVars>>

\* line 360: return what it returned
PolygonReturn ==
    /\ pc = "pg_return"
    /\ Return
    /\ UNCHANGED <<raised, crsVars, alVars, rpVars, mpVars, pgVars, dpVars>>

PolygonNext ==
    \/ PolygonEnter
    \/ PolygonRing
    \/ PolygonCollect
    \/ PolygonAttach
    \/ PolygonExtend
    \/ PolygonNoLines
    \/ PolygonAssemble
    \/ PolygonReturn

(***************************************************************************)
(* project_geometry(geometry, src_crs=None) and the other handlers         *)
(***************************************************************************)
\* a coordinate value of a point: a number, or NaN
Real(v) == [nan |-> FALSE, v |-> v]
NaN == [nan |-> TRUE, v |-> 0]

\* what self.transform_point returns: a pair of numbers, NaN among them
TransformResults ==
    {<<Real(0), Real(0)>>, <<Real(1), Real(2)>>, <<NaN, NaN>>}

\* sgeom.Point(x, y)
Point(x, y) ==
    [py_type |-> "geometry", geom_type |-> "Point", x |-> x, y |-> y]
\* sgeom.MultiPoint(geoms) and sgeom.MultiPoint()
MultiPoint(parts) ==
    [py_type |-> "geometry", geom_type |-> "MultiPoint", geoms |-> parts]
\* sgeom.MultiLineString(geoms)
MultiLineString(parts) ==
    [py_type |-> "geometry", geom_type |-> "MultiLineString", geoms |-> parts]
\* the Python list []
PyList(items) == [py_type |-> "list", geom_type |-> "none", geoms |-> items]
\* the Python tuple (rings, multi_line_string)
PyTuple(items) == [py_type |-> "tuple", geom_type |-> "none", geoms |-> items]

\* bool(r) of a geometry r: it is not empty
truthy(r) == r.geoms # <<>>

\* the dict _method_map, lines 78-86
_method_map ==
    [gt \in {"Point", "LineString", "LinearRing", "Polygon", "MultiPoint",
             "MultiLineString", "MultiPolygon"} |->
        CASE gt = "Point" -> "_project_point"
          [] gt = "LineString" -> "_project_line_string"
          [] gt = "LinearRing" -> "_project_linear_ring"
          [] gt = "Polygon" -> "_project_polygon"
          [] gt = "MultiPoint" -> "_project_multipoint"
          [] gt = "MultiLineString" -> "_project_multiline"
          [] gt = "MultiPolygon" -> "_project_multipolygon"]

\* a lookup that finds a handler for every multi-part kind
method_for_any(geom_type) ==
    IF geom_type \in DOMAIN _method_map THEN _method_map[geom_type]
    ELSE "_project_multipolygon"

\* line 201: self._method_map.get(geom_type), "none" for None
method_for(geom_type) ==
    IF geom_type \in DOMAIN _method_map THEN _method_map[geom_type]
    ELSE "none"

\* a type test that lets every value through
isinstance_anything(crs) == TRUE

\* line 197: isinstance(src_crs, CRS)
isinstance_CRS(crs) == crs \in {"geodetic", "projected"}

\* line 196: self.as_geodetic()
as_geodetic == "geodetic"

\* a point handler that replaces an undefined result by the origin
_project_point_checked(t) ==
    IF t[1].nan \/ t[2].nan THEN Point(Real(0), Real(0)) ELSE Point(t[1], t[2])

\* lines 207-208: t is what self.transform_point(point.x, point.y, src_crs)
\* returned
_project_point(t) == Point(t[1], t[2])

\* lines 210-211: lines is what cartopy.trace.project_linear returned
_project_line_string(lines) == MultiLineString(lines)

\* where the body of each handler starts
Entry(method) ==
    CASE method = "_project_point" -> "pt_transform"
      [] method = "_project_line_string" -> "ls_project"
      [] method = "_project_linear_ring" -> "rp_project"
      [] method = "_project_polygon" -> "pg_enter"
      [] method = "_project_multipoint" -> "mpt_for"
      [] method = "_project_multiline" -> "ml_for"
      [] method = "_project_multipolygon" -> "mpg_for"

\* lines 195-205
ProjectGeometry ==
    /\ pc = "project_geometry"
    /\ LET src == IF src_crs = "None" THEN as_geodetic ELSE src_crs
           method == method_for(geometry.geom_type)
       IN IF src_crs # "None" /\ ~isinstance_CRS(src_crs)
          THEN /\ raised' = "TypeError"
               /\ pc' = "raised"
               /\ UNCHANGED <<stack, src_crs, method_name, polygon>>
          ELSE /\ src_crs' = src
               /\ IF method = "none"
                  THEN /\ raised' = "ValueError"
                       /\ pc' = "raised"
                       /\ UNCHANGED <<stack, method_name, polygon>>
                  ELSE /\ method_name' = method
                       /\ Call(Entry(method), "returned")
                       /\ polygon' = IF method = "_project_polygon"
                                     THEN geometry ELSE polygon
                       /\ UNCHANGED raised
    /\ geoms' = <<>>
    /\ dp_m' = 0
    /\ UNCHANGED <<crsVars, alVars, rpVars, mpVars, pg_is_ccw, pg_rings, multi_lines,
                   pg_r, geometry, src_arg, transformed, result>>
    /\ UNCHANGED projected

\* line 205: the value the handler returned is returned
ProjectGeometryReturn ==
    /\ pc = "returned"
    /\ result' = CASE method_name = "_project_linear_ring" ->
                        PyTuple(<<rp_rings, MultiLineString(multi_line_string)>>)
                   [] method_name = "_project_polygon" -> multi_poly
                   [] OTHER -> result
    /\ pc' = "done"
    /\ UNCHANGED <<stack, raised, crsVars, alVars, rpVars, mpVars, pgVars,
                   geometry, src_arg, src_crs, method_name, geoms, dp_m,
                   transformed>>
    /\ UNCHANGED projected

\* lines 207-208: _project_point
ProjectPoint ==
    /\ pc = "pt_transform"
    /\ \E t \in TransformResults :
          /\ transformed' = t
          /\ result' = _project_point(t)
    /\ Return
    /\ UNCHANGED <<raised, crsVars, alVars, rpVars, mpVars, pgVars, geometry,
                   src_arg, src_crs, method_name, geoms, dp_m>>
    /\ UNCHANGED projected

\* lines 210-211: _project_line_string
ProjectLineString ==
    /\ pc = "ls_project"
    /\ \E lines \in ClippedLines : result' = _project_line_string(lines)
    /\ Return
    /\ UNCHANGED <<raised, crsVars, alVars, rpVars, mpVars, pgVars, geometry,
                   src_arg, src_crs, method_name, geoms, dp_m, transformed>>
    /\ UNCHANGED projected

\* lines 299-301: _project_multipoint, one member
MultiPointMember ==
    /\ pc = "mpt_for"
    /\ dp_m < Len(geometry.geoms)
    /\ \E t \in TransformResults :
          /\ transformed' = t
          /\ geoms' = Append(geoms, _project_point(t))
          /\ projected' = Append(projected, _project_point(t))
    /\ dp_m' = dp_m + 1
    /\ UNCHANGED <<pc, stack, raised, crsVars, alVars, rpVars, mpVars, pgVars,
                   geometry, src_arg, src_crs, method_name, result>>

\* lines 302-305
MultiPointReturn ==
    /\ pc = "mpt_for"
    /\ dp_m >= Len(geometry.geoms)
    /\ result' = IF geoms # <<>> THEN MultiPoint(geoms) ELSE MultiPoint(<<>>)
    /\ Return
    /\ UNCHANGED <<raised, crsVars, alVars, rpVars, mpVars, pgVars, geometry,
                   src_arg, src_crs, method_name, geoms, dp_m, transformed>>
    /\ UNCHANGED projected

\* lines 308-312: _project_multiline, one member
MultiLineMember ==
    /\ pc = "ml_for"
    /\ dp_m < Len(geometry.geoms)
    /\ \E lines \in ClippedLines :
          LET r == _project_line_string(lines)
          IN /\ geoms' = IF truthy(r) THEN geoms \o r.geoms ELSE geoms
             /\ projected' = Append(projected, r)
    /\ dp_m' = dp_m + 1
    /\ UNCHANGED <<pc, stack, raised, crsVars, alVars, rpVars, mpVars, pgVars,
                   geometry, src_arg, src_crs, method_name, transformed,
                   result>>

\* lines 313-316
MultiLineReturn ==
    /\ pc = "ml_for"
    /\ dp_m >= Len(geometry.geoms)
    /\ result' = IF geoms # <<>> THEN MultiLineString(geoms) ELSE PyList(<<>>)
    /\ Return
    /\ UNCHANGED <<raised, crsVars, alVars, rpVars, mpVars, pgVars, geometry,
                   src_arg, src_crs, method_name, geoms, dp_m, transformed>>
    /\ UNCHANGED projected

\* lines 320-321: _project_multipolygon, project one member
MultiPolygonMember ==
    /\ pc = "mpg_for"
    /\ dp_m < Len(geometry.geoms)
    /\ polygon' = geometry.geoms[dp_m + 1]
    /\ Call("pg_enter", "mpg_collect")
    /\ UNCHANGED <<raised, crsVars, alVars, rpVars, mpVars, pg_is_ccw, pg_rings,
                   multi_lines, pg_r, dpVars>>

\* lines 322-323: keep the parts of a member that is not empty
MultiPolygonCollect ==
    /\ pc = "mpg_collect"
    /\ geoms' = IF truthy(multi_poly) THEN geoms \o multi_poly.geoms ELSE geoms
    /\ projected' = Append(projected, multi_poly)
    /\ dp_m' = dp_m + 1
    /\ pc' = "mpg_for"
    /\ UNCHANGED <<stack, raised, crsVars, alVars, rpVars, mpVars, pgVars,
                   geometry, src_arg, src_crs, method_name, transformed,
                   result>>

\* lines 324-328
MultiPolygonReturn ==
    /\ pc = "mpg_for"
    /\ dp_m >= Len(geometry.geoms)
    /\ result' = IF geoms # <<>> THEN MultiPolygon(geoms)
                 ELSE MultiPolygon(<<>>)
    /\ Return
    /\ UNCHANGED <<raised, crsVars, alVars, rpVars, mpVars, pgVars, geometry,
                   src_arg, src_crs, method_name, geoms, dp_m, transformed>>
    /\ UNCHANGED projected

DispatchNext ==
    \/ ProjectGeometry
    \/ ProjectGeometryReturn
    \/ ProjectPoint
    \/ ProjectLineString
    \/ MultiPointMember
    \/ MultiPointReturn
    \/ MultiLineMember
    \/ MultiLineReturn
    \/ MultiPolygonMember
    \/ MultiPolygonCollect
    \/ MultiPolygonReturn

Next ==
    \/ DispatchNext
    \/ PolygonNext
    \/ RingNext
    \/ AttachNext
    \/ AssembleNext

(***************************************************************************)
(* The stitcher on its own: every pool of fragments, every boundary.       *)
(***************************************************************************)
\* an open line string: its ends on the boundary, its other coordinates off
Fragments ==
    {<<<<a, 0>>>> \o [k \in 1 .. n |-> <<a, k>>] \o <<<<b, 0>>>> :
        a \in Positions, b \in Positions, n \in InteriorCounts}

Pools == UNION {[1 .. n -> Fragments] : n \in 1 .. MaxFragments}

InitCrs ==
    /\ crs_boundary \in Boundaries
    /\ cw_memo = <<>>
    /\ ccw_memo = <<>>
    /\ domain_memo = <<>>

InitAttachLocals ==
    /\ line_strings = <<>>
    /\ edge_things = <<>>
    /\ remaining_ls = {}
    /\ processed_ls = <<>>
    /\ current_i = 0
    /\ current_ls = <<>>
    /\ added_linestring = {}
    /\ next_thing = _BoundaryPoint(0, TRUE, <<0, 0>>)
    /\ linear_rings = <<>>
    /\ al_calls = 0
    /\ current_ids = <<>>
    /\ processed_ids = <<>>
    /\ landed = <<>>

InitRingLocals ==
    /\ rp_clipped = <<>>
    /\ multi_line_string = <<>>
    /\ rp_line_strings = <<>>
    /\ rp_i = 0
    /\ rp_j = 0
    /\ modified = FALSE
    /\ any_modified = FALSE
    /\ rp_rings = <<>>
    /\ rp_calls = 0

InitAssembleLocals ==
    /\ exterior_rings = <<>>
    /\ interior_rings = <<>>
    /\ mp_e = 0
    /\ polygon_bits = <<>>
    /\ mp_relation = <<>>
    /\ mp_inversion = NoInversion
    /\ multi_poly = MultiPolygon(<<>>)
    /\ mp_calls = 0

InitPolygonLocals ==
    /\ polygon = [geom_type |-> "Polygon", interiors |-> 0,
                  exterior_is_ccw |-> TRUE]
    /\ pg_is_ccw = TRUE
    /\ pg_rings = <<>>
    /\ multi_lines = <<>>
    /\ pg_r = 0

InitDispatchLocals ==
    /\ geometry = [geom_type |-> "Polygon"]
    /\ src_arg = "None"
    /\ src_crs = "geodetic"
    /\ method_name = "none"
    /\ geoms = <<>>
    /\ dp_m = 0
    /\ transformed = <<>>
    /\ projected = <<>>
    /\ result = PyList(<<>>)

InitStitch ==
    /\ pc = "al_build"
    /\ stack = <<>>
    /\ raised = "none"
    /\ InitCrs
    /\ al_multi_line_strings \in {<<pool>> : pool \in Pools}
    /\ al_is_ccw \in BOOLEAN
    /\ InitAttachLocals
    /\ InitRingLocals
    /\ mp_rings = <<>>
    /\ mp_is_ccw = TRUE
    /\ InitAssembleLocals
    /\ InitPolygonLocals
    /\ InitDispatchLocals

SpecStitch == InitStitch /\ [][AttachNext]_vars

\* The same with the call made by a step: a caller that holds the CRS calls
\* _attach_lines_to_boundary(multi_line_strings, is_ccw), and the
\* interpreter goes on running the call until it returns or raises.
InitStitchCall ==
    /\ pc = "al_call"
    /\ stack = <<>>
    /\ raised = "none"
    /\ InitCrs
    /\ al_multi_line_strings = <<>>
    /\ al_is_ccw = TRUE
    /\ InitAttachLocals
    /\ InitRingLocals
    /\ mp_rings = <<>>
    /\ mp_is_ccw = TRUE
    /\ InitAssembleLocals
    /\ InitPolygonLocals
    /\ InitDispatchLocals

\* line 362: the call binds the arguments
AttachCall ==
    /\ pc = "al_call"
    /\ al_multi_line_strings' \in {<<fragments>> : fragments \in Pools}
    /\ al_is_ccw' \in BOOLEAN
    /\ pc' = "al_build"
    /\ UNCHANGED notAl
    /\ UNCHANGED <<stack, raised, crsVars, line_strings, edge_things,
                   remaining_ls, processed_ls, current_i, current_ls,
                   added_linestring, next_thing, linear_rings, al_calls,
                   current_ids, processed_ids, landed>>

StitchCallNext == AttachCall \/ AttachNext

\* the call has returned or raised
Halted == pc \in {"done", "raised"}

\* Weak fairness of StitchCallNext, which is enabled exactly when the call
\* has not halted: either the call halts or it goes on taking steps.
SpecStitchFair ==
    /\ InitStitchCall
    /\ [][StitchCallNext]_vars
    /\ ([]<>Halted \/ []<><<StitchCallNext>>_vars)

(***************************************************************************)
(* The ring projector on its own: every list of fragments.                 *)
(***************************************************************************)
InitRing ==
    /\ pc = "rp_project"
    /\ stack = <<>>
    /\ raised = "none"
    /\ InitCrs
    /\ al_multi_line_strings = <<>>
    /\ al_is_ccw = TRUE
    /\ InitAttachLocals
    /\ InitRingLocals
    /\ mp_rings = <<>>
    /\ mp_is_ccw = TRUE
    /\ InitAssembleLocals
    /\ InitPolygonLocals
    /\ InitDispatchLocals

SpecRing == InitRing /\ [][RingNext]_vars

\* the call is not suspended for ever: a step that can be taken is taken
SpecRingFair == SpecRing /\ WF_vars(RingNext)

(***************************************************************************)
(* The polygon assembler on its own: every list of rings.                  *)
(***************************************************************************)
RingChoices ==
    {<< <<0, 0>>, <<2, 0>>, <<0, 2>>, <<0, 0>> >>,
     << <<0, 0>>, <<0, 2>>, <<2, 0>>, <<0, 0>> >>,
     << <<0, 0>>, <<4, 0>>, <<4, 4>>, <<0, 4>>, <<0, 0>> >>,
     << <<0, 0>>, <<0, 4>>, <<4, 4>>, <<4, 0>>, <<0, 0>> >>}

RingLists == UNION {[1 .. n -> RingChoices] : n \in 0 .. MaxRings}

InitAssemble ==
    /\ pc = "mp_classify"
    /\ stack = <<>>
    /\ raised = "none"
    /\ InitCrs
    /\ al_multi_line_strings = <<>>
    /\ al_is_ccw = TRUE
    /\ InitAttachLocals
    /\ InitRingLocals
    /\ mp_rings \in RingLists
    /\ mp_is_ccw \in BOOLEAN
    /\ InitAssembleLocals
    /\ InitPolygonLocals
    /\ InitDispatchLocals

SpecAssemble == InitAssemble /\ [][AssembleNext]_vars

(***************************************************************************)
(* project_geometry: every kind of geometry, every kind of src_crs.        *)
(***************************************************************************)
SourcePoints == {[geom_type |-> "Point", x |-> Real(1), y |-> Real(2)]}
SourceLines == {[geom_type |-> "LineString"]}
SourcePolygons ==
    {[geom_type |-> "Polygon", interiors |-> n, exterior_is_ccw |-> b] :
        n \in InteriorRingCounts, b \in BOOLEAN}
\* the members of a source MultiPolygon have no interior rings
MemberPolygons == {p \in SourcePolygons : p.interiors = 0}

Members(S) == UNION {[1 .. n -> S] : n \in 0 .. MaxMembers}

Geometries ==
    SourcePoints \cup SourceLines \cup SourcePolygons
    \cup {[geom_type |-> "LinearRing"], [geom_type |-> "GeometryCollection"]}
    \cup {[geom_type |-> "MultiPoint", geoms |-> g] : g \in Members(SourcePoints)}
    \cup {[geom_type |-> "MultiLineString", geoms |-> g] :
            g \in Members(SourceLines)}
    \cup {[geom_type |-> "MultiPolygon", geoms |-> g] :
            g \in Members(MemberPolygons)}

\* src_crs: omitted, a geodetic CRS, a projected CRS, a value that is no CRS
SourceCRSs == {"None", "geodetic", "projected", "not a CRS"}

Init ==
    /\ pc = "project_geometry"
    /\ stack = <<>>
    /\ raised = "none"
    /\ InitCrs
    /\ al_multi_line_strings = <<>>
    /\ al_is_ccw = TRUE
    /\ InitAttachLocals
    /\ InitRingLocals
    /\ mp_rings = <<>>
    /\ mp_is_ccw = TRUE
    /\ InitAssembleLocals
    /\ InitPolygonLocals
    /\ geometry \in Geometries
    /\ src_arg \in SourceCRSs
    /\ src_crs = src_arg
    /\ method_name = "none"
    /\ geoms = <<>>
    /\ dp_m = 0
    /\ transformed = <<>>
    /\ projected = <<>>
    /\ result = PyList(<<>>)

Spec == Init /\ [][Next]_vars

(***************************************************************************)
(* The claims.                                                             *)
(***************************************************************************)
NoRepeat(s) == \A a, b \in 1 .. Len(s) : a # b => s[a] # s[b]
Closed(ring) == ring # <<>> /\ ring[1] = Last(ring)
Returned == pc = "done" /\ raised = "none"

SevenKinds ==
    {"Point", "LineString", "LinearRing", "Polygon", "MultiPoint",
     "MultiLineString", "MultiPolygon"}
MultiKinds == {"MultiPoint", "MultiLineString", "MultiPolygon"}
Family(geom_type) ==
    CASE geom_type = "Point" -> {"Point"}
      [] geom_type \in {"LineString", "MultiLineString"} ->
            {"LineString", "MultiLineString"}
      [] geom_type \in {"Polygon", "MultiPolygon"} -> {"Polygon", "MultiPolygon"}
InFamily(value, geom_type) ==
    value.py_type = "geometry" /\ value.geom_type \in Family(geom_type)
\* the parts of the members' projections, in order
RECURSIVE Parts(_)
Parts(members) ==
    IF members = <<>> THEN <<>>
    ELSE (IF Head(members).geom_type = "Point" THEN <<Head(members)>>
          ELSE Head(members).geoms)
         \o Parts(Tail(members))
NoHandlerInvoked ==
    /\ method_name = "none"
    /\ rp_calls = 0 /\ al_calls = 0 /\ mp_calls = 0
    /\ transformed = <<>> /\ projected = <<>>
    /\ result = PyList(<<>>)

\* C1 as stated: project_geometry preserves the topological family of its
\* input: a Point yields a Point, a LineString or MultiLineString yields a
\* (Multi)LineString, a Polygon or MultiPolygon yields a (Multi)Polygon, also
\* when every member projects to empty.
C1_FamilyPreserved ==
    (Returned /\ geometry.geom_type \in
        {"Point", "LineString", "MultiLineString", "Polygon", "MultiPolygon"})
    => InFamily(result, geometry.geom_type)

\* C1, what the code does: the family is preserved except that a
\* MultiLineString none of whose members projects to a line yields the
\* list [], which is no geometry.
C1_FamilyUnlessNoLines ==
    (Returned /\ geometry.geom_type \in
        {"Point", "LineString", "MultiLineString", "Polygon", "MultiPolygon"})
    => IF geometry.geom_type = "MultiLineString" /\ geoms = <<>>
       THEN result = PyList(<<>>)
       ELSE InFamily(result, geometry.geom_type)

\* C1: a MultiLineString whose two members both projected to empty has
\* been returned as the list []
C1_Witness ==
    /\ Returned
    /\ geometry.geom_type = "MultiLineString"
    /\ Len(geometry.geoms) = 2
    /\ Len(projected) = 2
    /\ result.py_type = "list"

\* C2: a src_crs that is given but is no CRS raises TypeError before any
\* handler is invoked; an omitted src_crs is replaced by the geodetic CRS
\* and never raises TypeError.
C2_InvalidSourceCRS ==
    pc # "project_geometry" =>
        /\ src_arg = "not a CRS" =>
              /\ pc = "raised"
              /\ raised = "TypeError"
              /\ NoHandlerInvoked
        /\ src_arg = "None" =>
              /\ src_crs = as_geodetic
              /\ raised # "TypeError"

\* C2: TypeError was raised for a geometry of an unsupported kind, so the
\* test of src_crs comes before the lookup of the handler
C2_Witness ==
    /\ src_arg = "not a CRS"
    /\ geometry.geom_type = "GeometryCollection"
    /\ raised = "TypeError"

\* C3: with a valid or omitted src_crs, each of the seven kinds is handed
\* to its own handler, and a geometry of any other kind raises ValueError
\* with no handler invoked.
C3_Dispatch ==
    (pc # "project_geometry" /\ src_arg # "not a CRS") =>
        LET gt == geometry.geom_type
        IN IF gt \in SevenKinds
           THEN /\ raised # "ValueError"
                /\ method_name =
                      CASE gt = "Point" -> "_project_point"
                        [] gt = "LineString" -> "_project_line_string"
                        [] gt = "LinearRing" -> "_project_linear_ring"
                        [] gt = "Polygon" -> "_project_polygon"
                        [] gt = "MultiPoint" -> "_project_multipoint"
                        [] gt = "MultiLineString" -> "_project_multiline"
                        [] gt = "MultiPolygon" -> "_project_multipolygon"
           ELSE /\ pc = "raised"
                /\ raised = "ValueError"
                /\ NoHandlerInvoked

\* C3: ValueError was raised for a geometry of another kind with src_crs
\* omitted
C3_Witness ==
    /\ src_arg = "None"
    /\ geometry.geom_type \notin SevenKinds
    /\ raised = "ValueError"

\* C4 as stated: the result of a multi-part handler holds the parts of the
\* members that did not project to empty and nothing else, and when every
\* member projects to empty or there are no members the result is an empty
\* multi-part geometry of the same kind as the input; a multi-part input
\* with a valid or omitted src_crs raises no error.
C4_EmptyMulti ==
    /\ (geometry.geom_type \in MultiKinds /\ src_arg # "not a CRS") =>
          raised = "none"
    /\ (Returned /\ geometry.geom_type \in MultiKinds) =>
          /\ result.geoms = Parts(projected)
          /\ Parts(projected) = <<>> =>
                result = [py_type |-> "geometry",
                          geom_type |-> geometry.geom_type, geoms |-> <<>>]

\* C4, what the code does: as stated for MultiPoint and MultiPolygon; a
\* MultiLineString with nothing to return gives the list [].
C4_EmptyMultiUnlessLines ==
    /\ (geometry.geom_type \in MultiKinds /\ src_arg # "not a CRS") =>
          raised = "none"
    /\ (Returned /\ geometry.geom_type \in MultiKinds) =>
          /\ result.geoms = Parts(projected)
          /\ Parts(projected) = <<>> =>
                result = IF geometry.geom_type = "MultiLineString"
                         THEN PyList(<<>>)
                         ELSE [py_type |-> "geometry",
                               geom_type |-> geometry.geom_type,
                               geoms |-> <<>>]

\* C4: a MultiLineString with one member that projected to empty and one
\* that did not has been returned
C4_Witness ==
    /\ Returned
    /\ geometry.geom_type = "MultiLineString"
    /\ Len(projected) = 2
    /\ projected[1].geoms = <<>>
    /\ projected[2].geoms # <<>>
    /\ result.geoms = projected[2].geoms

\* C5 as stated: for each of the seven kinds the value returned is a single
\* geometry, not a pair, tuple or list.
C5_SingleGeometry ==
    (Returned /\ geometry.geom_type \in SevenKinds) =>
        result.py_type = "geometry"

\* C5, what the code does: a LinearRing gives the tuple (rings,
\* multi_line_string), a MultiLineString with nothing to return gives the
\* list [], every other input gives a single geometry.
C5_TupleForLinearRing ==
    (Returned /\ geometry.geom_type \in SevenKinds) =>
        result.py_type =
            CASE geometry.geom_type = "LinearRing" -> "tuple"
              [] geometry.geom_type = "MultiLineString" /\ geoms = <<>> -> "list"
              [] OTHER -> "geometry"

\* C5: a LinearRing has been returned as a tuple of one ring and no lines
C5_Witness ==
    /\ Returned
    /\ geometry.geom_type = "LinearRing"
    /\ result.py_type = "tuple"
    /\ Len(result.geoms[1]) = 1
    /\ result.geoms[2].geoms = <<>>

\* C6: projecting a Point with a valid or omitted src_crs never raises, and
\* the Point returned carries exactly the coordinates transform_point
\* returned, NaN included.
C6_NaNPassThrough ==
    (geometry.geom_type = "Point" /\ src_arg # "not a CRS") =>
        /\ raised = "none"
        /\ pc = "done" =>
              /\ result.py_type = "geometry"
              /\ result.geom_type = "Point"
              /\ result.x = transformed[1]
              /\ result.y = transformed[2]

\* C6: a Point with NaN coordinates has been returned
C6_Witness ==
    /\ Returned
    /\ geometry.geom_type = "Point"
    /\ transformed = <<NaN, NaN>>
    /\ result.x.nan /\ result.y.nan

C8_NoFragmentTwice ==
    /\ NoRepeat(current_ids)
    /\ \A k \in 1 .. Len(processed_ids) : NoRepeat(processed_ids[k])
    /\ current_i \notin added_linestring

\* a finished path that holds its origin and one more fragment
C8_Witness ==
    /\ Returned
    /\ \E k \in 1 .. Len(processed_ids) : Len(processed_ids[k]) >= 2

\* the input rings classified as interior: those still in interior_rings and
\* those already given to an exterior ring as holes
InteriorClass ==
    Range(interior_rings)
    \cup UNION {Range(polygon_bits[k].hole_indices) :
                  k \in {b \in 1 .. Len(polygon_bits) :
                            polygon_bits[b].kind = "rings"}}

C10_WholeRing ==
    (/\ Returned
     /\ Len(rp_clipped) = 1
     /\ Len(rp_clipped[1]) >= 4
     /\ rp_clipped[1][1] = Last(rp_clipped[1])) =>
        /\ Len(rp_rings) = 1
        /\ Closed(rp_rings[1])
        /\ Front(rp_rings[1]) = Front(rp_clipped[1])
        /\ multi_line_string = <<>>

\* C10: a single closed fragment of 4 coordinates has been returned as the
\* one ring
C10_Witness ==
    /\ Returned
    /\ Len(rp_clipped) = 1
    /\ Len(rp_clipped[1]) = 4
    /\ rp_clipped[1][1] = Last(rp_clipped[1])
    /\ rp_rings = <<rp_clipped[1]>>

\* the input rings no exterior ring took as a hole
Orphans ==
    {n \in 1 .. Len(mp_rings) :
        /\ is_interior(mp_rings[n], mp_is_ccw)
        /\ \A k \in 1 .. Len(polygon_bits) :
              polygon_bits[k].kind = "rings" =>
                 n \notin Range(polygon_bits[k].hole_indices)}

\* C11: the multi polygon returned has one part per exterior ring, in
\* order, carrying the holes that ring took (no hole in two parts), then one
\* part per left-over interior ring whose inversion is not empty, and
\* nothing else; no rings give an empty multi polygon; nothing is raised.
C11_Parts ==
    /\ raised = "none"
    /\ Returned =>
          LET parts == multi_poly.geoms
              ne == Len(exterior_rings)
              inverted == {r \in Orphans : mp_inversion.outcome[r] = "part"}
          IN /\ Len(parts) = ne + Cardinality(inverted)
             /\ \A k \in 1 .. ne :
                   /\ parts[k].kind = "rings"
                   /\ parts[k].exterior = mp_rings[exterior_rings[k]]
                   /\ parts[k].holes =
                         [h \in 1 .. Len(parts[k].hole_indices) |->
                             mp_rings[parts[k].hole_indices[h]]]
                   /\ \A h \in Range(parts[k].hole_indices) :
                         /\ is_interior(mp_rings[h], mp_is_ccw)
                         /\ slurps(mp_relation, exterior_rings[k], h)
                         /\ \A j \in 1 .. ne :
                               j # k => h \notin Range(parts[j].hole_indices)
             /\ {parts[k].ring : k \in ne + 1 .. Len(parts)} = inverted
             /\ \A k \in ne + 1 .. Len(parts) : parts[k].kind = "inverted"
             /\ mp_rings = <<>> => multi_poly = MultiPolygon(<<>>)

\* C11: a part with an exterior ring and one hole, and the inverted part of
\* a left-over interior ring, have been returned
C11_Witness ==
    /\ Returned
    /\ Len(multi_poly.geoms) = 2
    /\ multi_poly.geoms[1].kind = "rings"
    /\ Len(multi_poly.geoms[1].holes) = 1
    /\ multi_poly.geoms[2].kind = "inverted"

\* the only ring handed over is an interior ring
SoleInteriorRing ==
    Len(mp_rings) = 1 /\ is_interior(mp_rings[1], mp_is_ccw)

ScenarioB ==
    /\ al_calls > 0
    /\ BoundaryLength = 100
    /\ Len(line_strings) = 2
    /\ \E x, y \in 1 .. 2 :
          /\ x # y
          /\ boundary_distance(line_strings[x][1], al_is_ccw) = 10
          /\ boundary_distance(Last(line_strings[x]), al_is_ccw) = 50
          /\ boundary_distance(line_strings[y][1], al_is_ccw) = 50
          /\ boundary_distance(Last(line_strings[y]), al_is_ccw) = 10

\* the boundary vertices between distance 50 and distance 10, through 100/0
VerticesFrom50To10 ==
    {v \in Range(BoundaryCoords(crs_boundary)) :
        \/ boundary_distance(v, al_is_ccw) > 50
        \/ boundary_distance(v, al_is_ccw) < 10}

\* C12 as stated: in Scenario B exactly one closed ring is returned, and it
\* holds both fragments and the boundary vertices between 50 and 10.
C12_Original ==
    (Returned /\ ScenarioB) =>
        /\ Len(linear_rings) = 1
        /\ Closed(linear_rings[1])
        /\ \A k \in 1 .. 2 :
              Range(line_strings[k]) \subseteq Range(linear_rings[1])
        /\ VerticesFrom50To10 \subseteq Range(linear_rings[1])

\* C12 amended: in Scenario B exactly one closed ring is returned; it is one
\* fragment followed by the other, whichever comes first in the pool, and
\* nothing else: the path never lands on a boundary vertex.
C12_BothFragmentsNoVertex ==
    (Returned /\ ScenarioB) =>
        /\ Len(linear_rings) = 1
        /\ Closed(linear_rings[1])
        /\ linear_rings[1] = line_strings[2] \o line_strings[1]
        /\ \A k \in 1 .. Len(landed) : ~landed[k].kind

\* C12: Scenario B has returned its ring on a boundary with a vertex at 75,
\* between 50 and 10, with Y first in the pool
C12_Witness ==
    /\ Returned
    /\ ScenarioB
    /\ 75 \in crs_boundary
    /\ boundary_distance(line_strings[1][1], al_is_ccw) = 50
    /\ Len(linear_rings) = 1

\* C14: when the path lands on the first end of a line string other than
\* the one it started from, RuntimeError is raised and no ring is returned
\* if that line string was already added to the path; otherwise all its
\* coordinates are appended to the path and it leaves remaining_ls.
C14_Revisit ==
    /\ [](raised = "RuntimeError" => (pc = "raised" /\ linear_rings = <<>>))
    /\ [][(/\ pc = "al_next"
           /\ ~next_thing.kind
           /\ next_thing.data[1] # current_i) =>
             LET j == next_thing.data[1]
             IN IF j \in added_linestring
                THEN /\ raised' = "RuntimeError"
                     /\ pc' = "raised"
                     /\ linear_rings' = <<>>
                ELSE /\ raised' = "none"
                     /\ current_ls' = current_ls \o line_strings[j + 1]
                     /\ remaining_ls' = remaining_ls \ {j}
                     /\ added_linestring' = added_linestring \cup {j}
                     /\ pc' = "al_find"]_vars

\* C14: a line string other than the one the path started from has just
\* been appended to the path and has left remaining_ls
C14_Witness ==
    /\ pc = "al_find"
    /\ raised = "none"
    /\ current_ids # <<>>
    /\ Last(current_ids) # current_i
    /\ Last(current_ids) \in added_linestring
    /\ Last(current_ids) \notin remaining_ls
    /\ Len(current_ls) >= Len(line_strings[current_i + 1])
                              + Len(line_strings[Last(current_ids) + 1])

\* the polygons whose projection has started
PolygonsStarted ==
    CASE geometry.geom_type = "Polygon" ->
            IF pc \in {"project_geometry", "raised"} THEN 0 ELSE 1
      [] geometry.geom_type = "MultiPolygon" ->
            Len(projected)
            + (IF pc \in {"project_geometry", "raised", "mpg_for",
                          "returned", "done"}
               THEN 0 ELSE 1)
      [] OTHER -> 0

\* C15: _attach_lines_to_boundary is entered at most once for each polygon,
\* only when every ring of the polygon has been through
\* _project_linear_ring, and on the open line strings of all those rings
\* pooled; it is not entered for a polygon none of whose rings left an open
\* line string.
C15_StitchOnce ==
    /\ [](al_calls <= PolygonsStarted)
    /\ [][al_calls' # al_calls =>
             /\ al_calls' = al_calls + 1
             /\ pc = "al_build"
             /\ Head(stack) = "pg_extend"
             /\ pg_r = 1 + polygon.interiors
             /\ al_multi_line_strings = multi_lines
             /\ Flatten(multi_lines) # <<>>]_vars
    /\ [][pc = "pg_collect" =>
             /\ pg_r' = pg_r + 1
             /\ Flatten(multi_lines') =
                   Flatten(multi_lines) \o multi_line_string]_vars
    /\ [][(pc = "pg_for" /\ pg_r < 1 + polygon.interiors) =>
             (pc' = "rp_project" /\ rp_calls' = rp_calls)]_vars
    /\ []((/\ geometry.geom_type = "Polygon"
           /\ pc \in {"pg_assemble", "pg_return", "returned", "done"}) =>
             /\ rp_calls = 1 + polygon.interiors
             /\ al_calls = IF Flatten(multi_lines) = <<>> THEN 0 ELSE 1)

\* C15: a polygon with an interior ring has been projected, each of its two
\* rings left open line strings, and the one stitching call got them all
C15_Witness ==
    /\ Returned
    /\ geometry.geom_type = "Polygon"
    /\ polygon.interiors = 1
    /\ rp_calls = 2
    /\ Len(multi_lines) = 2
    /\ al_calls = 1
    /\ al_multi_line_strings = multi_lines

\* no line's first coordinate is close to another line's last coordinate
NoFusablePair(lines) ==
    \A i, j \in 1 .. Len(lines) :
        i # j => ~allclose(lines[i][1], Last(lines[j]), threshold_e5)

\* C16: the loop that joins the line strings ends, for every list of
\* fragments, and when it has ended no line's first coordinate is within
\* the threshold of another line's last coordinate.
C16_FusionTerminates ==
    /\ <>(pc = "done")
    /\ [](pc = "rp_rings" => NoFusablePair(multi_line_string))

\* C16: three fragments, two of them close but not equal at the joint, have
\* been joined into one line, the scan having resumed from the lower index
C16_Witness ==
    /\ pc = "rp_rings"
    /\ any_modified
    /\ Len(rp_clipped) = 3
    /\ Len(multi_line_string) = 1
    /\ rp_clipped[1][1] # Last(rp_clipped[2])
    /\ allclose(rp_clipped[1][1], Last(rp_clipped[2]), threshold_e5)
    /\ allclose(rp_clipped[2][1], Last(rp_clipped[3]), threshold_e5)
    /\ ~allclose(rp_clipped[1][1], Last(rp_clipped[3]), threshold_e5)

\* a line of more than 3 coordinates whose ends are within the threshold
PromotedToRing(line) ==
    Len(line) > 3 /\ allclose(line[1], Last(line), threshold_e5)
StaysOpen(line) == ~PromotedToRing(line)

\* C17: when _project_linear_ring returns, the lines it held after the
\* joining are split, in order, into the rings (each line of more than 3
\* coordinates with ends within the threshold, its last coordinate dropped
\* and the ring closed) and the open lines (every other line, a closed line
\* of 3 coordinates included); no line is lost or in both.
C17_Partition ==
    [][pc = "rp_rings" =>
          LET lines == multi_line_string
              promoted == SelectSeq(lines, PromotedToRing)
          IN /\ multi_line_string' = SelectSeq(lines, StaysOpen)
             /\ Len(rp_rings') = Len(promoted)
             /\ \A k \in 1 .. Len(promoted) :
                   /\ Closed(rp_rings'[k])
                   /\ rp_rings'[k] \in {Front(promoted[k]),
                                         Append(Front(promoted[k]),
                                                promoted[k][1])}
             /\ Len(rp_rings') + Len(multi_line_string') = Len(lines)]_vars

\* C17: of two lines that could not be joined one was returned as a ring
\* and the other among the open lines
C17_Witness ==
    /\ Returned
    /\ Len(rp_clipped) = 2
    /\ Len(rp_rings) = 1
    /\ Len(multi_line_string) = 1
    /\ Len(rp_rings[1]) >= 4

\* the things are in non-decreasing order of distance
DistanceSorted(things) ==
    \A a, b \in 1 .. Len(things) :
        a < b => things[a].distance <= things[b].distance

\* no boundary point comes before the first end of a line string that is at
\* the same distance
EndpointBeforeVertex(things) ==
    \A a, b \in 1 .. Len(things) :
        (a < b /\ things[a].distance = things[b].distance) =>
            ~(things[a].kind /\ ~things[b].kind)
\* the places where the traversal searches edge_things
Traversing == pc \in {"al_while", "al_find", "al_next"}

\* C18 as stated: in the list the traversal searches the things are in
\* non-decreasing order of distance and the first end of a line string comes
\* before every boundary point at the same distance, so that a path never
\* lands on a boundary point at the distance of its last point while the
\* first end of a line string is waiting at that distance.
C18_EndpointsFirst ==
    Traversing =>
        /\ DistanceSorted(edge_things)
        /\ EndpointBeforeVertex(edge_things)
        /\ (/\ pc = "al_next"
            /\ next_thing.kind
            /\ next_thing.distance =
                  boundary_distance(Last(current_ls), al_is_ccw)) =>
              \A k \in 1 .. Len(edge_things) :
                  edge_things[k].kind
                  \/ edge_things[k].distance # next_thing.distance

\* C18, what the code does: edge_things is in non-decreasing order of
\* distance from the sort on, and right after the sort the ends of line
\* strings come before the boundary points at the same distance; the
\* boundary points inserted afterwards are not held to that.
C18_SortedByDistance ==
    /\ pc # "al_build" => DistanceSorted(edge_things)
    /\ pc = "al_insert" => EndpointBeforeVertex(edge_things)

\* C18: the traversal searches a list in which an inserted boundary point
\* comes before the first end of a line string at the same distance
C18_Witness ==
    /\ Traversing
    /\ \A k \in 1 .. Len(line_strings) : is_valid_line(line_strings[k])
    /\ \E a, b \in 1 .. Len(edge_things) :
          /\ a < b
          /\ edge_things[a].distance = edge_things[b].distance
          /\ edge_things[a].kind
          /\ ~edge_things[b].kind

\* the places k where things k and k + 1 are the two ends of one line string
SameLinePairs(things) ==
    {k \in 1 .. Len(things) - 1 :
        /\ ~things[k].kind
        /\ ~things[k + 1].kind
        /\ things[k].data[1] = things[k + 1].data[1]}

\* C19: the loop that follows the sort leaves no two ends of one line
\* string next to each other: between every pair that was adjacent after
\* the sort it puts one new boundary point whose distance is the mean of
\* theirs, and it adds, removes and moves nothing else.
C19_Disambiguation ==
    /\ pc = "al_filter" => SameLinePairs(edge_things) = {}
    /\ [][pc = "al_insert" =>
             LET old == edge_things
                 new == edge_things'
                 pairs == SameLinePairs(old)
                 shift(k) == Cardinality({p \in pairs : p < k})
             IN /\ Len(new) = Len(old) + Cardinality(pairs)
                /\ \A k \in 1 .. Len(old) : new[k + shift(k)] = old[k]
                /\ \A p \in pairs :
                      LET mid == new[p + shift(p) + 1]
                      IN /\ mid.kind
                         /\ 2 * mid.distance =
                               old[p].distance + old[p + 1].distance
                         /\ mid.data = interpolate(mid.distance, al_is_ccw)]_vars

\* C19: a boundary point has been inserted between the two ends of one line
\* string, which are at different distances
C19_Witness ==
    /\ pc = "al_filter"
    /\ \E k \in 2 .. Len(edge_things) - 1 :
          /\ edge_things[k].kind
          /\ ~edge_things[k - 1].kind
          /\ ~edge_things[k + 1].kind
          /\ edge_things[k - 1].data[1] = edge_things[k + 1].data[1]
          /\ edge_things[k - 1].distance < edge_things[k].distance
          /\ edge_things[k].distance < edge_things[k + 1].distance

\* the list as line 421 sorted it, before the insertions and the filter
sorted_things ==
    SortThings(AllEndThings(line_strings, 0, al_is_ccw)
               \o VertexThings(IF al_is_ccw THEN ccw_memo ELSE cw_memo,
                               al_is_ccw))

\* thing is the given end of line string i
IsEnd(thing, i, which) ==
    ~thing.kind /\ thing.data[1] = i /\ thing.data[2] = which

\* the two ends of line string i are adjacent in the sorted list, the one
\* named before first and the one named after second
AdjacentEnds(i, before, after) ==
    \E k \in 1 .. Len(sorted_things) - 1 :
        /\ IsEnd(sorted_things[k], i, before)
        /\ IsEnd(sorted_things[k + 1], i, after)

\* the path has just landed on the first end of the line string it started
\* from
Closing == pc = "al_next" /\ IsEnd(next_thing, current_i, "first")

\* the path that started from line string current_i has landed somewhere
PathLanded == Traversing /\ landed # <<>>

C21_Landing ==
    /\ [](Traversing =>
            /\ \A k \in 1 .. Len(edge_things) :
                  edge_things[k].kind \/ edge_things[k].data[2] = "first"
            /\ \A k \in 1 .. Len(landed) :
                  landed[k].kind \/ landed[k].data[2] = "first")
    /\ [][(pc = "al_find" /\ edge_things # <<>>) =>
             LET d == boundary_distance(Last(current_ls), al_is_ccw)
                 ge == {k \in 1 .. Len(edge_things) :
                           edge_things[k].distance >= d}
                 k == IF ge = {} THEN 1
                      ELSE CHOOSE m \in ge : \A n \in ge : m <= n
             IN /\ next_thing' = edge_things[k]
                /\ Len(edge_things') = Len(edge_things) - 1
                /\ \A m \in 1 .. Len(edge_things') :
                      edge_things'[m] =
                         edge_things[IF m < k THEN m ELSE m + 1]]_vars

\* C21: no thing left in the list is at or after the end of the path, and the
\* path has landed on the first thing of the list
C21_Witness ==
    /\ pc = "al_next"
    /\ next_thing.distance < boundary_distance(Last(current_ls), al_is_ccw)
    /\ \A k \in 1 .. Len(edge_things) :
          edge_things[k].distance
             < boundary_distance(Last(current_ls), al_is_ccw)
    /\ edge_things # <<>>
    /\ \A k \in 1 .. Len(line_strings) : is_valid_line(line_strings[k])

\* a finished path of fewer than 3 coordinates, or of 3 with its first
\* coordinate equal to its last
Degenerate(path) ==
    \/ Len(path) < 3
    \/ Len(path) = 3 /\ path[1] = Last(path)

\* the finished paths that are returned as rings
KeptPaths ==
    {k \in 1 .. Len(processed_ls) :
        ~Degenerate(processed_ls[k]) /\ is_valid_line(processed_ls[k])}

\* C22: a finished path of fewer than 3 coordinates, or of 3 coordinates with
\* first = last, is not returned as a ring; no exception is raised for it,
\* and every other finished path is returned as if it had not been there:
\* the rings are the valid paths that are left, closed, in their order.
C22_DegenerateDropped ==
    /\ raised = "none"
    /\ Returned =>
          /\ Len(linear_rings) = Cardinality(KeptPaths)
          /\ \A k \in KeptPaths :
                linear_rings[Cardinality({m \in KeptPaths : m <= k})]
                   = LinearRing(processed_ls[k])
          /\ \A r \in 1 .. Len(linear_rings) :
                /\ Len(linear_rings[r]) >= 4
                /\ \A k \in 1 .. Len(processed_ls) :
                      Degenerate(processed_ls[k]) =>
                         linear_rings[r] # processed_ls[k]

\* C22: a call has returned that finished a closed path of 3 coordinates, a
\* path of 2 coordinates, or both, and another path that became a ring
C22_Witness ==
    /\ Returned
    /\ Len(processed_ls) = 2
    /\ \E k \in 1 .. 2 :
          /\ Degenerate(processed_ls[k])
          /\ is_valid_line(processed_ls[k])
    /\ Len(linear_rings) = 1

\* the rings classified as interior, as indices into the argument
InteriorIndices ==
    {n \in 1 .. Len(mp_rings) : is_interior(mp_rings[n], mp_is_ccw)}

\* the exterior rings, by their place in the loop, that stand in one of the
\* given relations to interior ring h
Related(h, relations) ==
    {k \in 1 .. Len(exterior_rings) :
        mp_relation[<<exterior_rings[k], h>>] \in relations}

\* the parts that hold interior ring h as a hole
AssignedTo(h) ==
    {k \in 1 .. Len(polygon_bits) :
        /\ polygon_bits[k].kind = "rings"
        /\ h \in Range(polygon_bits[k].hole_indices)}

\* the loop over the exterior rings is running or over
Slurped == pc \in {"mp_exterior", "mp_build", "done"}

\* the loop over the exterior rings is over
SlurpedAll == pc \in {"mp_build", "done"}

\* C23: every interior ring is the hole of at most one exterior ring, the
\* first one in the order of the loop whose polygon contains it or crosses
\* it; once a hole, it is no longer in the list the later exterior rings
\* look at; an interior ring that no exterior ring contains or crosses stays
\* in the list, left over.
C23_FirstTaker ==
    /\ Slurped =>
          \A h \in InteriorIndices :
             /\ Cardinality(AssignedTo(h)) <= 1
             /\ AssignedTo(h) # {} <=> h \notin Range(interior_rings)
    /\ SlurpedAll =>
          \A h \in InteriorIndices :
             LET takers == Related(h, {"contains", "crosses"})
             IN IF takers = {}
                THEN AssignedTo(h) = {} /\ h \in Range(interior_rings)
                ELSE AssignedTo(h) = {SetMin(takers)}

\* C23: an interior ring that two exterior rings contain or cross has gone
\* to the first of them
C23_Witness ==
    /\ Returned
    /\ \E h \in InteriorIndices :
          /\ Related(h, {"contains", "crosses"}) = {1, 2}
          /\ AssignedTo(h) = {1}

\* C24 as stated: an interior ring that some exterior ring contains is the
\* hole of an exterior ring that contains it, and an interior ring is a hole
\* by crossing alone only when no exterior ring contains it.
C24_CrossingOnlyFallback ==
    SlurpedAll =>
       \A h \in InteriorIndices :
          /\ Related(h, {"contains"}) # {} =>
                (AssignedTo(h) # {}
                 /\ AssignedTo(h) \subseteq Related(h, {"contains"}))
          /\ (AssignedTo(h) \cap Related(h, {"crosses"}) # {}) =>
                Related(h, {"contains"}) = {}

\* C24, what the loop does: crossing is tried after containment for one
\* exterior ring at a time.  An interior ring is a hole by crossing when the
\* exterior ring that crosses it is the first that contains or crosses it,
\* whether or not a later one contains it.
C24_FallbackPerExterior ==
    SlurpedAll =>
       \A h \in InteriorIndices :
          \A k \in Related(h, {"crosses"}) :
             k \in AssignedTo(h) <=>
                \A j \in 1 .. k - 1 :
                   mp_relation[<<exterior_rings[j], h>>] = "neither"

\* C24: the first exterior ring crosses an interior ring that the second one
\* contains, and the interior ring is the hole of the first
C24_Witness ==
    /\ Returned
    /\ \E h \in InteriorIndices :
          /\ 1 \in Related(h, {"crosses"})
          /\ 2 \in Related(h, {"contains"})
          /\ AssignedTo(h) = {1}

\* _attach_lines_to_boundary is running
InAttach ==
    pc \in {"al_build", "al_insert", "al_filter", "al_while", "al_find",
            "al_next"}

\* _rings_to_multi_polygon is running
InAssemble == pc \in {"mp_classify", "mp_exterior", "mp_build"}

\* C25: while a polygon is projected, the is_ccw that
\* _attach_lines_to_boundary and _rings_to_multi_polygon are called with is
\* True when the source CRS is geodetic, whatever the orientation of the
\* exterior ring, and the orientation of the exterior ring of the source
\* polygon otherwise; both calls get the same value.
C25_IsCcw ==
    LET expected == IF src_crs = "geodetic" THEN TRUE
                    ELSE polygon.exterior_is_ccw
    IN /\ InAttach => al_is_ccw = expected
       /\ InAssemble =>
             /\ mp_is_ccw = expected
             /\ multi_lines # <<>> => al_is_ccw = mp_is_ccw

\* C25: a clockwise polygon from a geodetic source has been through
\* _attach_lines_to_boundary and is in _rings_to_multi_polygon
C25_Witness ==
    /\ InAssemble
    /\ src_crs = "geodetic"
    /\ ~polygon.exterior_is_ccw
    /\ multi_lines # <<>>
    /\ al_calls >= 1
    /\ mp_is_ccw

\* the coordinates of self.boundary, closed, in the order they are given
boundary_ring ==
    LET xs == SetToSeq(crs_boundary)
        open == [k \in 1 .. Len(xs) |-> <<xs[k], 0>>]
    IN Append(open, open[1])

\* C26 as stated: the memoised boundaries and the domain are fixed when the
\* CRS is constructed, and no step of a project_geometry call writes to the
\* CRS.
C26_NoWriteAfterConstruction ==
    [][/\ crs_boundary' = crs_boundary
       /\ cw_memo' = cw_memo
       /\ ccw_memo' = ccw_memo
       /\ domain_memo' = domain_memo]_vars

\* C26 amended: self.boundary is never written; _cw_boundary, _ccw_boundary
\* and _domain are unset after construction, and each is written by a
\* project_geometry call, once, the first time it is needed, with a value
\* computed from self.boundary alone; once set it is read and never written
\* again.
C26_WrittenOnFirstUse ==
    /\ [](/\ cw_memo \in {<<>>, boundary_ring}
          /\ ccw_memo \in {<<>>, Reverse(boundary_ring)}
          /\ domain_memo \in {<<>>, boundary_ring})
    /\ [][/\ crs_boundary' = crs_boundary
          /\ cw_memo # <<>> => cw_memo' = cw_memo
          /\ ccw_memo # <<>> => ccw_memo' = ccw_memo
          /\ domain_memo # <<>> => domain_memo' = domain_memo
          /\ cw_memo' # cw_memo => (pc = "al_build" /\ ~al_is_ccw)
          /\ ccw_memo' # ccw_memo => (pc = "al_build" /\ al_is_ccw)
          /\ domain_memo' # domain_memo =>
                (pc = "mp_exterior" /\ interior_rings # <<>>)]_vars

\* C26: the second member of a multi polygon is in
\* _attach_lines_to_boundary, reading the boundary that the call for the
\* first member stored on the CRS
C26_Witness ==
    /\ geometry.geom_type = "MultiPolygon"
    /\ al_calls = 2
    /\ pc = "al_insert"
    /\ (IF al_is_ccw THEN ccw_memo ELSE cw_memo) # <<>>
    /\ Len(projected) = 1

\* C27: for every pool of line strings and every boundary the traversal
\* ends: the call returns; every path that is started lands, in the end, on
\* the first end of the line string it started from and is put among the
\* finished paths; the list is never empty when the next thing is looked
\* for; and remaining_ls is empty when the call returns.
C27_TraversalTerminates ==
    /\ <>(pc = "done" /\ raised = "none")
    /\ [](pc = "al_find" => edge_things # <<>>)
    /\ [](pc = "done" => remaining_ls = {})
    /\ (pc = "al_find" /\ landed = <<>>)
          ~> (/\ pc = "al_while"
              /\ IsEnd(next_thing, current_i, "first")
              /\ processed_ls # <<>>
              /\ Last(processed_ls) = current_ls
              /\ Last(processed_ids)[1] = current_i)

\* C27: the call has returned after two paths, the second of which went
\* through a boundary point and the other line string before it closed
C27_Witness ==
    /\ Returned
    /\ Len(line_strings) = 2
    /\ remaining_ls = {}
    /\ Len(processed_ls) = 1
    /\ Len(landed) >= 3
    /\ IsEnd(Last(landed), current_i, "first")

\* how many of the things are boundary points
VertexCount(things) ==
    Cardinality({k \in 1 .. Len(things) : things[k].kind})

\* the boundary points of the list the traversal starts with: the vertices
\* of the boundary and the points inserted between the ends of a line string
InitialVertices ==
    VertexCount(sorted_things) + Cardinality(SameLinePairs(sorted_things))

\* the number of coordinates of the line strings with the given keys
RECURSIVE CoordsOf(_)
CoordsOf(ids) ==
    IF ids = <<>> THEN 0
    ELSE Len(line_strings[Head(ids) + 1]) + CoordsOf(Tail(ids))

\* the boundary points appended to the finished paths k, k + 1, ...
RECURSIVE AppendedVertices(_)
AppendedVertices(k) ==
    IF k > Len(processed_ls) THEN 0
    ELSE Len(processed_ls[k]) - CoordsOf(processed_ids[k])
         + AppendedVertices(k + 1)

\* the path being built has not been put among the finished paths
PathOpen == pc \in {"al_find", "al_next"}

\* the places, in the finished paths and in the path being built, that hold
\* line string i
PlacesOf(i) ==
    {<<k, m>> \in (1 .. Len(processed_ids)) \X (1 .. Len(line_strings)) :
        m <= Len(processed_ids[k]) /\ processed_ids[k][m] = i}

\* C28: in one call every thing is used at most once.  The coordinates of
\* each line string are in exactly one finished path when the call returns,
\* as the line string the path started from or as one appended to it, and in
\* at most one path before that; every boundary point, a vertex of the
\* boundary or an inserted one, is appended to at most one path: the
\* boundary points left in the list and those appended to the paths are, in
\* number, those the traversal started with, and each pass takes the thing
\* it lands on out of the list, which never takes a thing back.
C28_ConsumedOnce ==
    /\ [](Traversing =>
            /\ \A i \in 0 .. Len(line_strings) - 1 :
                  Cardinality(PlacesOf(i))
                     + (IF PathOpen
                        THEN Cardinality({m \in 1 .. Len(current_ids) :
                                             current_ids[m] = i})
                        ELSE 0) <= 1
            /\ AppendedVertices(1)
                  + (IF PathOpen THEN VertexCount(landed) ELSE 0)
                  + VertexCount(edge_things) = InitialVertices)
    /\ [](Returned =>
            /\ \A i \in 0 .. Len(line_strings) - 1 :
                  Cardinality(PlacesOf(i)) = 1
            /\ \A k \in 1 .. Len(processed_ls) :
                  /\ Len(processed_ls[k]) >= CoordsOf(processed_ids[k])
                  /\ \A m \in 1 .. Len(processed_ids[k]) :
                        Range(line_strings[processed_ids[k][m] + 1])
                           \subseteq Range(processed_ls[k]))
    /\ [][(Traversing /\ Traversing') =>
             \/ edge_things' = edge_things
             \/ /\ pc = "al_find"
                /\ \E k \in 1 .. Len(edge_things) :
                      /\ edge_things' = RemoveAt(edge_things, k)
                      /\ landed' = Append(landed, edge_things[k])]_vars

\* C28: the call has returned one path that holds two line strings and two
\* boundary points or more, and boundary points are still in the list
C28_Witness ==
    /\ Returned
    /\ Len(processed_ls) = 1
    /\ Len(processed_ids[1]) = 2
    /\ Len(processed_ls[1]) >= CoordsOf(processed_ids[1]) + 2
    /\ VertexCount(edge_things) > 0

\* the path has just landed on the first end of a line string other than
\* the one it started from
LandedOnOther ==
    /\ pc = "al_next"
    /\ ~next_thing.kind
    /\ next_thing.data[1] # current_i

\* C29: the RuntimeError of lines 530-532 is never raised: whenever the path
\* lands on the first end of a line string other than the one it started
\* from, that line string is still in remaining_ls and has not been appended
\* to the path.
C29_NeverReAdded ==
    /\ raised # "RuntimeError"
    /\ LandedOnOther =>
          /\ next_thing.data[1] \in remaining_ls
          /\ next_thing.data[1] \notin added_linestring
          /\ next_thing.data[1] \notin Range(current_ids)

\* C29: the path has landed on the first end of another line string, one
\* whose first end is at the same distance as the first end of the line
\* string the path started from
C29_Witness ==
    /\ LandedOnOther
    /\ next_thing.distance =
          boundary_distance(line_strings[current_i + 1][1], al_is_ccw)
    /\ \A k \in 1 .. Len(line_strings) : is_valid_line(line_strings[k])

\* the list the traversal starts with
initial_things ==
    Filter(InsertArtificial(sorted_things, 1, <<>>, al_is_ccw))

\* Lines 479-533 as a function: the path that starts from line string i
\* with the things given.  items is what the path holds after line string
\* i, in order: <<"line", j>> for an appended line string and
\* <<"point", xy>> for a boundary point.
RECURSIVE WalkPath(_, _, _, _, _)
WalkPath(things, i, ls, items, remaining) ==
    IF things = <<>>
    THEN [raised |-> "IndexError", ls |-> ls, items |-> items,
          things |-> things, remaining |-> remaining]
    ELSE LET k == _find_first_ge(things,
                                 boundary_distance(Last(ls), al_is_ccw))
             thing == things[k]
             rest == remove(things, k)
             j == thing.data[1]
         IN IF thing.kind
            THEN WalkPath(rest, i, Append(ls, thing.data),
                          Append(items, <<"point", thing.data>>), remaining)
            ELSE IF j = i
            THEN [raised |-> "none", ls |-> ls, items |-> items,
                  things |-> rest, remaining |-> remaining]
            ELSE IF <<"line", j>> \in Range(items)
            THEN [raised |-> "RuntimeError", ls |-> ls, items |-> items,
                  things |-> rest, remaining |-> remaining \ {j}]
            ELSE WalkPath(rest, i, ls \o coords_to_append(line_strings, j),
                          Append(items, <<"line", j>>), remaining \ {j})

\* the first key of order that is still in remaining
FirstOf(order, remaining) ==
    order[SetMin({k \in 1 .. Len(order) : order[k] \in remaining})]

\* Lines 467-533 as a function, with the line string that starts each new
\* path chosen as the first one of order that is left.  The result is the
\* exception raised, if any, and the list of the finished paths, each as
\* the key it started from followed by its items.
RECURSIVE WalkAll(_, _, _, _)
WalkAll(things, remaining, order, paths) ==
    IF remaining = {} THEN [raised |-> "none", paths |-> paths]
    ELSE LET i == FirstOf(order, remaining)
             path == WalkPath(things, i, line_strings[i + 1], <<>>,
                              remaining \ {i})
         IN IF path.raised # "none"
            THEN [raised |-> path.raised, paths |-> paths]
            ELSE WalkAll(path.things, path.remaining, order,
                         Append(paths,
                                [ls |-> path.ls,
                                 items |-> << <<"line", i>> >> \o path.items]))

\* the keys of the line strings
Keys == {k - 1 : k \in 1 .. Len(line_strings)}

\* every order in which the line strings can be preferred
Orders ==
    {order \in [1 .. Len(line_strings) -> Keys] : Range(order) = Keys}

\* the order of dict.popitem: the key inserted last comes first
PopitemOrder == [k \in 1 .. Len(line_strings) |-> Len(line_strings) - k]

\* the call when the paths start in the given order
WalkIn(order) == WalkAll(initial_things, Keys, order, <<>>)

\* its finished paths
PathsIn(order) == WalkIn(order).paths

\* a sequence turned round by n places
Rotated(seq, n) ==
    [k \in 1 .. Len(seq) |-> seq[((k + n - 1) % Len(seq)) + 1]]

\* a cycle: a sequence up to the place it starts at
Cycle(seq) == {Rotated(seq, n) : n \in 0 .. Len(seq) - 1}

\* the paths up to their order and to where each one starts
Cycles(paths) == {Cycle(paths[k].items) : k \in 1 .. Len(paths)}

\* the first end that follows the last end of line string i in the list,
\* going round: the key of its line string
NextFirstEnd(i) ==
    LET d == boundary_distance(Last(line_strings[i + 1]), al_is_ccw)
        firsts == {k \in 1 .. Len(initial_things) : ~initial_things[k].kind}
        after == {k \in firsts : initial_things[k].distance >= d}
    IN initial_things[IF after = {} THEN SetMin(firsts)
                      ELSE SetMin(after)].data[1]

\* no two line strings have their last ends followed by the same first end
NoSharedNextFirstEnd ==
    \A i, j \in Keys : i # j => NextFirstEnd(i) # NextFirstEnd(j)

\* C30: when no two line strings have their last ends followed, going round
\* the boundary, by the same first end, the paths of the call are the same
\* whichever line string left in remaining_ls starts each new path: the same
\* line strings together in a path, and in each path the same line strings
\* and boundary points in the same cyclic order.  The paths the call
\* returns are those of the order dict.popitem gives.
C30_StartIndependent ==
    Returned =>
       /\ processed_ls =
             [k \in 1 .. Len(processed_ls) |-> PathsIn(PopitemOrder)[k].ls]
       /\ NoSharedNextFirstEnd =>
             \A order \in Orders :
                /\ WalkIn(order).raised = "none"
                /\ Cycles(PathsIn(order)) = Cycles(PathsIn(PopitemOrder))

\* C30: a call has returned one path of two line strings and a boundary
\* point; started from the other line string, the path holds the same
\* things from another place on
C30_Witness ==
    /\ Returned
    /\ NoSharedNextFirstEnd
    /\ Len(line_strings) = 2
    /\ Len(processed_ls) = 1
    /\ Len(processed_ls[1]) > Len(line_strings[1]) + Len(line_strings[2])
    /\ PathsIn(<<0, 1>>) # PathsIn(<<1, 0>>)
    /\ \A k \in 1 .. 2 : is_valid_line(line_strings[k])

====
